---------------------------- MODULE Spec2Model ----------------------------
(***************************************************************************)
(* State-machine model of the WebSocket audio relay of                     *)
(* khan2a/agent-conversation: the echo session (handle_audio_stream) and   *)
(* the file-streaming session (handle_audio_file_stream and its helpers)   *)
(* of src/services/audio_stream.py, as routed by                           *)
(* src/routers/websocket_audio.py.                                         *)
(*                                                                         *)
(* A resource name is a sequence of tokens (its text cut at the places the *)
(* code looks at: "/", "..", the rate hints, the extensions).  A path is a *)
(* sequence of components, a component a sequence of tokens.  A byte of a  *)
(* file is identified by the file and its offset, so a chunk is the record *)
(* [file, off, len] of the bytes file[off .. off+len-1].                   *)
(***************************************************************************)
EXTENDS Integers, Sequences, FiniteSets, TLC

\* ------------------------------------------------------------------ bounds

\* The largest number of whole chunks a source file's payload holds.
MaxChunks == 2
\* The largest number of frames a peer sends on one connection before it
\* disconnects.
MaxInbound == 2
\* The largest number of HTTP requests the speech endpoints serve.
MaxRequests == 2

\* --------------------------------------------------------- program constants

\* _calculate_streaming_parameters: sample_rate = 8000
DefaultRate == 8000
\* _calculate_streaming_parameters: sample_rate = 16000 when "16000" in filename
Rate16k == 16000
\* _calculate_streaming_parameters: bit_depth = 16
BitDepth == 16
\* _calculate_streaming_parameters: channels = 1
Channels == 1
\* _calculate_streaming_parameters: chunk_duration = 0.02 s, in milliseconds
ChunkDurationMs == 20
\* _calculate_streaming_parameters: chunk_size = 640 in the 16 kHz branch
ChunkSize16k == 640
\* _calculate_streaming_parameters: chunk_size = 320 in the 8 kHz branch
ChunkSize8k == 320
\* _stream_audio_file: header_skip = 44 for a .wav path
WavHeaderSkip == 44
\* websocket.close(code=1003, ...)
CloseCode == 1003
\* JSONResponse(content=...): the default status_code
HttpOk == 200
\* JSONResponse(status_code=400, ...)
HttpBadRequest == 400
HttpNotFound == 404
\* generate_test_audio.py: the sample rate of the test tone
TestToneRate == 44100

\* ---------------------------------------------------------------- sequences

Last(s) == s[Len(s)]

Front(s) == SubSeq(s, 1, Len(s) - 1)

Contains(s, t) == \E i \in 1..Len(s) : s[i] = t

RECURSIVE SumLen(_)
SumLen(s) == IF s = <<>> THEN 0 ELSE Head(s).len + SumLen(Tail(s))

\* ------------------------------------------------------------------- tokens

\* The extension tokens: the last token of a name is its pathlib suffix when
\* it is one of these.
DotToks == {".mp3", ".MP3", ".wav", ".ogg", ".m4a", ".flac", ".aac", ".txt", ".raw"}

\* str.lower() on a suffix
Lower(t) == IF t = ".MP3" THEN ".mp3" ELSE t

\* supported_formats of _validate_and_get_streaming_params
SupportedFormats == {".mp3", ".wav", ".ogg", ".m4a", ".flac", ".aac"}

\* -------------------------------------------------------------------- paths

App == <<"app">>
AudioFiles == <<"audio_files">>
DotDot == <<"..">>

\* The process's working directory and Path("audio_files") resolved in it.
Cwd == <<App>>
AudioDirResolved == <<App, AudioFiles>>
\* tempfile.gettempdir()
TempDir == << <<"tmp">> >>

\* The directories of the file system the server runs in.
Dirs == { <<>>, Cwd, AudioDirResolved, Append(AudioDirResolved, <<"sub">>), TempDir }

\* The regular files outside the temp directory.
RootFiles ==
  { Append(AudioDirResolved, n) : n \in
      { <<"tone", ".wav">>, <<"tone", "16000", ".wav">>, <<"clip", ".ogg">>,
        <<"song", ".mp3">>, <<"song", "16000", ".mp3">>,
        <<"song", ".mp3", ".mp3">>,
        <<"mix", "8000", "16000", ".mp3">>, <<"loud", ".MP3">>,
        <<"notes", ".txt">>, <<"converted_", "old", ".raw">> } }

OutsideFiles == { Append(Cwd, <<"secret", ".wav">>), Append(Cwd, <<"secret", ".txt">>) }

StaticFiles == RootFiles \cup OutsideFiles

\* A symbolic link inside the audio root that points out of it.
LinkPath == Append(AudioDirResolved, <<"link", ".wav">>)
LinkTarget == Append(Cwd, <<"secret", ".wav">>)

\* The marker of a path the file system cannot walk (ENOENT).
NoEnt == << <<"ENOENT">> >>

\* The components of a name: its tokens cut at "/".
RECURSIVE SplitComps(_, _)
SplitComps(toks, cur) ==
  IF toks = <<>> THEN (IF cur = <<>> THEN <<>> ELSE <<cur>>)
  ELSE IF Head(toks) = "/"
       THEN (IF cur = <<>> THEN <<>> ELSE <<cur>>) \o SplitComps(Tail(toks), <<>>)
       ELSE SplitComps(Tail(toks), Append(cur, Head(toks)))

\* audio_dir / filename: the unresolved path, relative to the working directory.
JoinPath(filename) == <<AudioFiles>> \o SplitComps(filename, <<>>)

\* The operating system's walk of the components from a directory: ".."
\* goes to the parent, a symbolic link is followed, and every component but
\* the last must be a directory.  `tmpNames` are the files now in the temp
\* directory.
RECURSIVE Walk(_, _, _)
Walk(at, comps, tmpNames) ==
  IF comps = <<>> THEN at
  ELSE IF at \notin Dirs THEN NoEnt
  ELSE IF Head(comps) = DotDot
       THEN Walk(IF at = <<>> THEN at ELSE Front(at), Tail(comps), tmpNames)
  ELSE LET p == Append(at, Head(comps))
           q == IF p = LinkPath THEN LinkTarget ELSE p
       IN IF q \in Dirs \cup StaticFiles \cup tmpNames
          THEN Walk(q, Tail(comps), tmpNames)
          ELSE NoEnt

\* Path.resolve() of a path relative to the working directory.
Resolve(path, tmpNames) == Walk(Cwd, path, tmpNames)

\* Path.exists()
Exists(path, tmpNames) == Resolve(path, tmpNames) # NoEnt

\* Mutant of IsRelativeTo: the containment check accepts every path.
IsRelativeToAnything(a, b) == TRUE

\* a.relative_to(b) does not raise ValueError: b is a prefix of a.
IsRelativeTo(a, b) == Len(a) >= Len(b) /\ SubSeq(a, 1, Len(b)) = b

\* Path.name: the last component.
PathName(path) == IF path = <<>> THEN <<>> ELSE Last(path)

\* Path.suffix: the extension of the last component ("" when it has none).
Suffix(path) ==
  LET n == PathName(path)
  IN IF Len(n) >= 2 /\ Last(n) \in DotToks THEN Last(n) ELSE ""

\* ------------------------------------------------------------ requested names

\* The resource names a peer requests on /ws/play/{filename}.
Filenames ==
  { <<"tone", ".wav">>, <<"tone", "16000", ".wav">>, <<"clip", ".ogg">>,
    <<"song", ".mp3">>, <<"song", "16000", ".mp3">>,
    <<"song", ".mp3", ".mp3">>,
    <<"mix", "8000", "16000", ".mp3">>, <<"loud", ".MP3">>,
    <<"notes", ".txt">>, <<"converted_", "old", ".raw">>, <<"link", ".wav">>,
    <<"missing", ".wav">>, <<"missing", ".txt">>,
    <<"..">>,
    <<"..", "/", "secret", ".wav">>, <<"..", "/", "secret", ".txt">>,
    <<"..", "/", "nofile", ".wav">>,
    <<"sub", "/", "..", "/", "tone", ".wav">>,
    <<"sub", "/", "..", "/", "song", ".mp3">> }

\* The name holds a path-traversal sequence.
HasTraversal(filename) == Contains(filename, "..")

\* ------------------------------------------------------------ pacing (pure)

\* Mutant of CalculateStreamingParameters: the 16 kHz branch keeps the chunk
\* size of 8 kHz.
CalculateStreamingParametersOneSize(filename, file_path) ==
  IF Contains(filename, "16000")
  THEN [chunk_size |-> ChunkSize8k, sleep_time |-> ChunkDurationMs,
        sample_rate |-> Rate16k]
  ELSE [chunk_size |-> ChunkSize8k, sleep_time |-> ChunkDurationMs,
        sample_rate |-> DefaultRate]

\* Mutant of CalculateStreamingParameters: the "8000" hint is looked for
\* before the "16000" hint.
CalculateStreamingParameters8kFirst(filename, file_path) ==
  IF Contains(filename, "8000")
  THEN [chunk_size |-> ChunkSize8k, sleep_time |-> ChunkDurationMs,
        sample_rate |-> DefaultRate]
  ELSE IF Contains(filename, "16000")
  THEN [chunk_size |-> ChunkSize16k, sleep_time |-> ChunkDurationMs,
        sample_rate |-> Rate16k]
  ELSE [chunk_size |-> ChunkSize8k, sleep_time |-> ChunkDurationMs,
        sample_rate |-> DefaultRate]

\* _calculate_streaming_parameters: the plan for a name.  sleep_time is in
\* milliseconds.  The .wav inspection (_analyze_wav_properties) only logs.
CalculateStreamingParameters(filename, file_path) ==
  IF Contains(filename, "16000")
  THEN [chunk_size |-> ChunkSize16k, sleep_time |-> ChunkDurationMs,
        sample_rate |-> Rate16k]
  ELSE IF Contains(filename, "8000")
  THEN [chunk_size |-> ChunkSize8k, sleep_time |-> ChunkDurationMs,
        sample_rate |-> DefaultRate]
  ELSE [chunk_size |-> (DefaultRate * BitDepth * Channels * ChunkDurationMs)
                          \div (8 * 1000),
        sleep_time |-> ChunkDurationMs,
        sample_rate |-> DefaultRate]

\* _analyze_wav_properties: what the inspection of a head logs for the rate
\* the name lets expect.  A head that does not parse, and a frame rate of 0
\* (the duration divides by it), raise inside the try and are logged as an
\* error; nothing is returned and nothing raised.
AnalyzeWavProperties(header, expected_rate) ==
  IF ~header.ok \/ header.rate = 0 THEN "error"
  ELSE IF header.rate # expected_rate THEN "warning"
  ELSE "match"

\* ------------------------------------------------------- transcoding (pure)

\* The source needs transcoding: file_path.suffix.lower() == '.mp3'.
NeedsConversion(path) == Lower(Suffix(path)) = ".mp3"

\* Mutant of TargetRate: every name is converted at the default rate.
TargetRateDefaultOnly(filename) == DefaultRate

\* _convert_mp3_to_l16: sample_rate = 16000 if "16000" in filename else 8000
TargetRate(filename) == IF Contains(filename, "16000") THEN Rate16k ELSE DefaultRate

\* str(sample_rate)
RateTok(rate) == IF rate = Rate16k THEN "16000" ELSE "8000"

\* filename.replace('.mp3', '')
StripMp3(filename) == SelectSeq(filename, LAMBDA t : t # ".mp3")

\* temp_dir / f"converted_{filename.replace('.mp3', '')}_l16_{sample_rate}.raw"
TempPath(filename) ==
  TempDir \o SplitComps(<<"converted_">> \o StripMp3(filename)
                          \o <<"_l16_", RateTok(TargetRate(filename)), ".raw">>,
                        <<>>)

\* The encoder can create its output only in a directory that exists.
TempParentExists(filename) == Front(TempPath(filename)) \in Dirs

\* The ffmpeg command line: input, format, channels, rate, overwrite, output.
FfmpegCmd(file_path, filename) ==
  [input |-> file_path, format |-> "s16le", ac |-> Channels,
   ar |-> TargetRate(filename), overwrite |-> TRUE, output |-> TempPath(filename)]

\* Every temp path a session of the model can name: those of the requested
\* names that end in .mp3.
AllTempPaths ==
  { TempPath(f) : f \in { g \in Filenames : Lower(Suffix(JoinPath(g))) = ".mp3" } }

\* A temp path that holds no file.
Absent == -1

\* ------------------------------------------------------------ file lengths

\* The payload lengths tried: empty, one byte, and whole and broken
\* multiples of both chunk sizes.
PayloadLens ==
  {0, 1} \cup { k * cs + r : k \in 1..MaxChunks, cs \in {ChunkSize8k},
                r \in {0, 5} }
         \cup { ChunkSize16k + 5 }

\* The lengths of a file under the audio root: shorter than a .wav header,
\* exactly a header, and a header followed by each payload.
FileLens == {0, 20} \cup { WavHeaderSkip + p : p \in PayloadLens }

\* The lengths the encoder writes (0: an empty output).
EncodedLens == PayloadLens

\* ------------------------------------------------------------------ frames

\* An ASGI message as websocket.receive() returns it under uvicorn (the
\* server main.py runs): a frame's message carries the key of its own type
\* only.
BytesMsg(p) == [type |-> "websocket.receive", bytes |-> p]
TextMsg(t) == [type |-> "websocket.receive", text |-> t]
DisconnectMsg == [type |-> "websocket.disconnect"]

\* The frames a peer sends.
PeerFrames == { BytesMsg(<<1, 2>>), BytesMsg(<<>>), TextMsg("hi") }

\* The events the server puts on the channel.
SentBytes(b) == [kind |-> "bytes", data |-> b]
SentText(t) == [kind |-> "text", data |-> t]
SentClose(code, reason) == [kind |-> "close", code |-> code, reason |-> reason]

\* A chunk read from a file: the bytes file[off .. off+len-1].
Chunk(file, off, len) == [file |-> file, off |-> off, len |-> len]

NoChunk == Chunk(<<>>, 0, 0)

\* The rejection text of the echo session.
EchoRejection == "Error: Only binary audio data is supported."

\* ------------------------------------------------------------------- state

\* The connections of the model.  The router hands each accepted connection
\* to one handler.
Conns == {1, 2}

VARIABLES
  endpoint,     \* per connection: "echo" (/ws/echo), "play" (/ws/play/...), "none"
  filename,     \* the {filename} of a /ws/play connection
  pc,           \* where the connection's handler stands
  inbox,        \* ASGI messages the server has not received yet (a queue)
  peerGone,     \* the peer has disconnected
  peerSent,     \* the number of frames the peer has sent
  clientState,  \* Starlette's client_state: "CONNECTED" / "DISCONNECTED"
  out,          \* what the server put on the channel, in order
  rcvd,         \* the messages handle_audio_stream received, in order
  message,      \* handle_audio_stream: the message being answered
  file_path,    \* the path that is streamed (the source or the temp file)
  params,       \* streaming_params
  header_skip,  \* _stream_audio_file: header_skip
  openFile,     \* the resolved path of the file that was opened
  openLen,      \* the length of the file that was opened
  pos,          \* the open file's position
  chunk,        \* _stream_audio_file: the chunk read and not yet sent
  chunk_count,  \* _stream_audio_file: chunk_count
  bytes_sent,   \* _stream_audio_file: bytes_sent
  tmp,          \* the temp directory: temp path -> file length, or Absent
  rootLen,      \* the length of each file outside the temp directory
  rootHeader,   \* what wave.open finds at the head of each of those files
  inspected,    \* what _analyze_wav_properties logged: "none" (not called),
                \* "match", "warning" (the rates differ), "error"
  fsLog,        \* the file-system calls the session made, in order
  encLog,       \* the encoder command lines the session ran, in order
  encResult,    \* how the session's encoder process started and ended
  loopExit,     \* how the send loop ended: "exhausted", "disconnect", "error"
  caught,       \* the exception that ended the handler and was caught in it
  raised,       \* the exception the handler let out to its caller
  discAt,       \* Len(out) when the peer's disconnect reached the channel
  callback_storage,  \* main.py: the payloads stored, in order
  speech_storage,    \* main.py: conversation_uuid -> highest-confidence text
  response,          \* the last HTTP response of a speech endpoint
  served,            \* the number of HTTP requests served
  audio_response     \* main.py: the last response of GET /audio/{filename}

chanVars == <<inbox, peerGone, peerSent, clientState, out, discAt>>
echoVars == <<rcvd, message>>
loopVars == <<header_skip, openFile, openLen, pos, chunk, chunk_count, bytes_sent>>
planVars == <<file_path, params, inspected>>
logVars == <<fsLog, encLog, encResult>>
excVars == <<caught, raised, loopExit>>
reqVars == <<endpoint, filename, rootLen, rootHeader>>
httpVars == <<callback_storage, speech_storage, response, served, audio_response>>

vars == <<endpoint, filename, pc, inbox, peerGone, peerSent, clientState, out,
          rcvd, message, file_path, params, header_skip, openFile, openLen,
          pos, chunk, chunk_count, bytes_sent, tmp, rootLen, fsLog, encLog,
          encResult, loopExit, caught, raised, discAt, callback_storage,
          speech_storage, response, served, rootHeader, inspected,
          audio_response>>

NoParams == [chunk_size |-> 0, sleep_time |-> 0, sample_rate |-> 0]

\* speech_storage = {}
NoSpeech == [u \in {} |-> ""]

\* What a speech endpoint says in the talk action of its answer.
Talk(kind, about) == [kind |-> kind, about |-> about]

\* A request body: `form` says whether it is JSON at all and whether the
\* JSON is an object; conversation_uuid "" stands for a payload without one.
Body(form, uuid, has_speech, results) ==
  [form |-> form, conversation_uuid |-> uuid, has_speech |-> has_speech,
   results |-> results]

\* A request without a body.
NoBody == Body("none", "", FALSE, <<>>)

\* An HTTP response of a speech endpoint, with the request it answers: its
\* status and, of its NCCO body, the talk action and the agent in the
\* eventUrl of the input action.
Response(path, method, payload, status, talk, agent) ==
  [path |-> path, method |-> method, payload |-> payload, status |-> status,
   talk |-> talk, event_agent |-> agent]

\* The response of GET /audio/{filename} to a name: its status.
AudioResponse(name, status) == [name |-> name, status |-> status]

\* No file was requested yet.
NoAudioResponse == AudioResponse(<<>>, 0)

\* No request was served yet.
NoResponse == Response("", "", NoBody, 0, Talk("none", ""), "")

\* No encoder process was started.  `alive` says that a process the session
\* started has not been waited for to its end yet.
NoRun == [spawn |-> "none", alive |-> FALSE, timedOut |-> FALSE, rc |-> 0,
          written |-> Absent, outLen |-> Absent]

\* The files now in the temp directory.
TmpNames == { p \in AllTempPaths : tmp[p] # Absent }

\* A path under the temp directory is absolute; every other path of the model
\* is relative to the working directory.
ResolveAny(path, tmpNames) ==
  IF IsRelativeTo(path, TempDir) THEN Walk(<<>>, path, tmpNames)
  ELSE Resolve(path, tmpNames)

\* The head of a file as wave.open reads it: `ok` says that it parses as a
\* WAV header, `rate` is the frame rate it holds.
Header(ok, rate) == [ok |-> ok, rate |-> rate]

\* A head that wave.open rejects (wave.Error, EOFError).
Corrupt == Header(FALSE, 0)

\* The frame rates found in the headers: those of the two hints, the rate
\* generate_test_audio.py writes, and zero.
HeaderRates == {DefaultRate, Rate16k, TestToneRate, 0}

\* The heads a file of a length can have: a file shorter than a header has
\* none that parses.
FileHeaders(len) ==
  IF len < WavHeaderSkip THEN {Corrupt}
  ELSE {Corrupt} \cup { Header(TRUE, r) : r \in HeaderRates }

\* The head of a file whose rate is the default, where the file can hold one.
PlainHeader(len) == IF len < WavHeaderSkip THEN Corrupt ELSE Header(TRUE, DefaultRate)

\* stat().st_size of a resolved path.
FileLen(real) == IF real \in AllTempPaths THEN tmp[real] ELSE rootLen

FsOp(op, path) == [op |-> op, path |-> path]

\* The handler the router starts for an endpoint.
StartPc(ep) == CASE ep = "echo" -> "receive"
                 [] ep = "play" -> "validate"
                 [] OTHER -> "unused"

InitCommon ==
  /\ inbox = [c \in Conns |-> <<>>]
  /\ peerGone = [c \in Conns |-> FALSE]
  /\ peerSent = [c \in Conns |-> 0]
  /\ clientState = [c \in Conns |-> "CONNECTED"]
  /\ out = [c \in Conns |-> <<>>]
  /\ rcvd = [c \in Conns |-> <<>>]
  /\ message = [c \in Conns |-> DisconnectMsg]
  /\ file_path = [c \in Conns |-> <<>>]
  /\ params = [c \in Conns |-> NoParams]
  /\ header_skip = [c \in Conns |-> 0]
  /\ openFile = [c \in Conns |-> <<>>]
  /\ openLen = [c \in Conns |-> 0]
  /\ pos = [c \in Conns |-> 0]
  /\ chunk = [c \in Conns |-> NoChunk]
  /\ chunk_count = [c \in Conns |-> 0]
  /\ bytes_sent = [c \in Conns |-> 0]
  /\ tmp = [p \in AllTempPaths |-> Absent]
  /\ rootLen \in FileLens
  /\ rootHeader \in FileHeaders(rootLen)
  /\ inspected = [c \in Conns |-> "none"]
  /\ fsLog = [c \in Conns |-> <<>>]
  /\ encLog = [c \in Conns |-> <<>>]
  /\ encResult = [c \in Conns |-> NoRun]
  /\ loopExit = [c \in Conns |-> "none"]
  /\ caught = [c \in Conns |-> "none"]
  /\ raised = [c \in Conns |-> "none"]
  /\ discAt = [c \in Conns |-> -1]
  /\ callback_storage = <<>>
  /\ speech_storage = NoSpeech
  /\ response = NoResponse
  /\ served = 0
  /\ audio_response = NoAudioResponse

\* The requests of the accepted connections: `reqs` gives each connection
\* its endpoint and its resource name.
InitRequests(reqs) ==
  /\ endpoint = [c \in Conns |-> reqs[c].endpoint]
  /\ filename = [c \in Conns |-> reqs[c].filename]
  /\ pc = [c \in Conns |-> StartPc(reqs[c].endpoint)]

EchoReq == [endpoint |-> "echo", filename |-> <<>>]
PlayReq(f) == [endpoint |-> "play", filename |-> f]
NoReq == [endpoint |-> "none", filename |-> <<>>]

\* The request reads no file of the audio root but through the encoder: the
\* lengths of those files make no difference to it.
ReadsNoRootFile(r) == r.endpoint # "play" \/ NeedsConversion(JoinPath(r.filename))

\* One accepted connection, on /ws/echo or on /ws/play/{filename}.  The
\* files' length is varied for the requests that can read one.
Init ==
  /\ InitCommon
  /\ \E r \in {EchoReq} \cup { PlayReq(f) : f \in Filenames } :
       /\ InitRequests([c \in Conns |-> IF c = 1 THEN r ELSE NoReq])
       /\ ReadsNoRootFile(r) => rootLen = WavHeaderSkip
  /\ rootHeader = PlainHeader(rootLen)

\* ------------------------------------------------------------------ the peer

\* The peer sends a frame.
PeerSend(c) ==
  /\ pc[c] \notin {"unused", "returned"}
  /\ ~peerGone[c]
  /\ peerSent[c] < MaxInbound
  /\ \E m \in PeerFrames : inbox' = [inbox EXCEPT ![c] = Append(@, m)]
  /\ peerSent' = [peerSent EXCEPT ![c] = @ + 1]
  /\ UNCHANGED <<httpVars, reqVars, pc, peerGone, clientState, out, discAt, echoVars,
                 planVars, loopVars, tmp, logVars, excVars>>

\* The peer disconnects: the server's next receive finds the disconnect
\* message behind the frames it has not received yet.
PeerDisconnect(c) ==
  /\ pc[c] \notin {"unused", "returned"}
  /\ ~peerGone[c]
  /\ inbox' = [inbox EXCEPT ![c] = Append(@, DisconnectMsg)]
  /\ peerGone' = [peerGone EXCEPT ![c] = TRUE]
  /\ discAt' = [discAt EXCEPT ![c] = Len(out[c])]
  /\ UNCHANGED <<httpVars, reqVars, pc, peerSent, clientState, out, echoVars, planVars,
                 loopVars, tmp, logVars, excVars>>

\* What a send on the channel can do: it returns, or, when the peer is gone,
\* it may raise WebSocketDisconnect or another exception.
SendOutcomes(c) ==
  IF peerGone[c] THEN {"ok", "WebSocketDisconnect", "Exception"} ELSE {"ok"}

\* ------------------------------------------------- echo: handle_audio_stream

\* message = await websocket.receive(), and the branch on the message.
\* receive() raises RuntimeError once a disconnect message was received; the
\* loop breaks on it.
EchoReceive(c) ==
  /\ pc[c] = "receive"
  /\ IF clientState[c] = "DISCONNECTED"
     THEN /\ pc' = [pc EXCEPT ![c] = "returned"]
          /\ UNCHANGED <<inbox, clientState, rcvd, message>>
     ELSE /\ inbox[c] # <<>>
          /\ LET m == Head(inbox[c])
             IN /\ inbox' = [inbox EXCEPT ![c] = Tail(@)]
                /\ rcvd' = [rcvd EXCEPT ![c] = Append(@, m)]
                /\ message' = [message EXCEPT ![c] = m]
                /\ clientState' = [clientState EXCEPT ![c] =
                     IF m.type = "websocket.disconnect" THEN "DISCONNECTED" ELSE @]
                /\ pc' = [pc EXCEPT ![c] =
                     IF "bytes" \in DOMAIN m THEN "send_bytes"
                     ELSE IF "text" \in DOMAIN m THEN "send_text"
                     ELSE "receive"]
  /\ UNCHANGED <<httpVars, reqVars, peerGone, peerSent, out, discAt, planVars, loopVars,
                 tmp, logVars, excVars>>

\* How a send of the echo loop ends: WebSocketDisconnect is caught by the
\* handler, any other exception leaves it.
EchoAfterSend(c, res, ev) ==
  /\ out' = [out EXCEPT ![c] = IF res = "ok" THEN Append(@, ev) ELSE @]
  /\ pc' = [pc EXCEPT ![c] = IF res = "ok" THEN "receive" ELSE "returned"]
  /\ caught' = [caught EXCEPT ![c] = IF res = "WebSocketDisconnect" THEN res ELSE @]
  /\ raised' = [raised EXCEPT ![c] = IF res = "Exception" THEN res ELSE @]
  /\ UNCHANGED loopExit

\* Mutant of EchoReply: the echo drops the payload.
EchoReplyEmpty(m) == SentBytes(<<>>)

\* The frame the echo loop answers a binary message with.
EchoReply(m) == SentBytes(m.bytes)

\* await websocket.send_bytes(data)
EchoSendBytes(c) ==
  /\ pc[c] = "send_bytes"
  /\ \E res \in SendOutcomes(c) : EchoAfterSend(c, res, EchoReply(message[c]))
  /\ UNCHANGED <<httpVars, reqVars, inbox, peerGone, peerSent, clientState, discAt,
                 echoVars, planVars, loopVars, tmp, logVars>>

\* Mutant of EchoRejectReply: a text frame is answered with a binary frame.
EchoRejectReplyBinary(m) == SentBytes(<<>>)

\* The frame the echo loop answers a text message with.
EchoRejectReply(m) == SentText(EchoRejection)

\* await websocket.send_text("Error: Only binary audio data is supported.")
EchoSendText(c) ==
  /\ pc[c] = "send_text"
  /\ \E res \in SendOutcomes(c) : EchoAfterSend(c, res, EchoRejectReply(message[c]))
  /\ UNCHANGED <<httpVars, reqVars, inbox, peerGone, peerSent, clientState, discAt,
                 echoVars, planVars, loopVars, tmp, logVars>>

\* ---------------------------------- play: _validate_and_get_streaming_params

\* Mutant of ValidationResult: the extension check is left out.
ValidationResultNoExtensionCheck(fname, tmpNames) ==
  LET fp == JoinPath(fname)
  IN IF ~Exists(fp, tmpNames) THEN "File not found"
     ELSE IF ~IsRelativeTo(Resolve(fp, tmpNames), Resolve(<<AudioFiles>>, tmpNames))
          THEN "Invalid file path"
     ELSE "ok"

\* Mutant of ValidationResult: no check is made.
ValidationResultAlwaysOk(fname, tmpNames) == "ok"

\* Mutant of ValidationResult: a path outside the audio root is reported as
\* a missing file.
ValidationResultOneReason(fname, tmpNames) ==
  LET fp == JoinPath(fname)
  IN IF ~Exists(fp, tmpNames) THEN "File not found"
     ELSE IF ~IsRelativeTo(Resolve(fp, tmpNames), Resolve(<<AudioFiles>>, tmpNames))
          THEN "File not found"
     ELSE IF Lower(Suffix(fp)) \notin SupportedFormats
          THEN "Unsupported audio format"
     ELSE "ok"

\* Mutant of ValidationResult: the extension is checked before the
\* containment in the audio root.
ValidationResultExtensionFirst(fname, tmpNames) ==
  LET fp == JoinPath(fname)
  IN IF ~Exists(fp, tmpNames) THEN "File not found"
     ELSE IF Lower(Suffix(fp)) \notin SupportedFormats
          THEN "Unsupported audio format"
     ELSE IF ~IsRelativeTo(Resolve(fp, tmpNames), Resolve(<<AudioFiles>>, tmpNames))
          THEN "Invalid file path"
     ELSE "ok"

\* The first check of the validator that fails, as the close reason it
\* sends; "ok" when every check passes.  The checks run in the order
\* existence, containment in the audio root, extension.
ValidationResult(fname, tmpNames) ==
  LET fp == JoinPath(fname)
  IN IF ~Exists(fp, tmpNames) THEN "File not found"
     ELSE IF ~IsRelativeTo(Resolve(fp, tmpNames), Resolve(<<AudioFiles>>, tmpNames))
          THEN "Invalid file path"
     ELSE IF Lower(Suffix(fp)) \notin SupportedFormats
          THEN "Unsupported audio format"
     ELSE "ok"

\* The file-system calls the validator makes up to its first failing check.
ValidationFsOps(fname, tmpNames) ==
  LET fp == JoinPath(fname)
  IN <<FsOp("exists", fp)>> \o
     (IF Exists(fp, tmpNames)
      THEN <<FsOp("resolve", fp), FsOp("resolve", <<AudioFiles>>)>>
      ELSE <<>>)

\* Mutant of CloseAndReturn: the failure is reported in a text frame.
CloseAndReturnWithText(c, reason) ==
  /\ out' = [out EXCEPT ![c] = Append(@, SentText(reason))]
  /\ pc' = [pc EXCEPT ![c] = "returned"]

\* await websocket.close(code=1003, reason=...); return None
CloseAndReturn(c, reason) ==
  /\ out' = [out EXCEPT ![c] = Append(@, SentClose(CloseCode, reason))]
  /\ pc' = [pc EXCEPT ![c] = "returned"]

\* Mutant of PlanFor: the pacing keeps a count of its calls and lets it
\* into the chunk size.
PlanForCounting(fname, path) ==
  [CalculateStreamingParameters(fname, path) EXCEPT
     !.chunk_size = @ + Cardinality({ d \in Conns : params[d] # NoParams })]

\* Mutant of PlanFor: the plan of a .wav source is computed from the frame
\* rate of its header when the header parses.
PlanFromHeader(fname, path) ==
  IF Lower(Suffix(path)) = ".wav" /\ rootHeader.ok /\ rootHeader.rate # 0
  THEN [chunk_size |-> (rootHeader.rate * BitDepth * Channels * ChunkDurationMs)
                          \div (8 * 1000),
        sleep_time |-> ChunkDurationMs,
        sample_rate |-> rootHeader.rate]
  ELSE CalculateStreamingParameters(fname, path)

\* streaming_params = _calculate_streaming_parameters(filename, file_path):
\* what the call returns in the state it is made in.
PlanFor(fname, path) == CalculateStreamingParameters(fname, path)

\* What the call logs of the .wav inspection: for a path that ends in .wav
\* the head of the file is compared with the rate of the name.
Inspection(fname, path) ==
  IF Lower(Suffix(path)) = ".wav"
  THEN AnalyzeWavProperties(rootHeader,
                            CalculateStreamingParameters(fname, path).sample_rate)
  ELSE "none"

\* The validator's checks, up to the call of the converter or, for a source
\* that needs none, to the computed plan.
Validate(c) ==
  /\ pc[c] = "validate"
  /\ LET fp == JoinPath(filename[c])
         res == ValidationResult(filename[c], TmpNames)
     IN /\ fsLog' = [fsLog EXCEPT ![c] = @ \o ValidationFsOps(filename[c], TmpNames)]
        /\ IF res # "ok"
           THEN /\ CloseAndReturn(c, res)
                /\ UNCHANGED planVars
           ELSE IF NeedsConversion(fp)
           THEN /\ pc' = [pc EXCEPT ![c] = "spawn"]
                /\ file_path' = [file_path EXCEPT ![c] = fp]
                /\ UNCHANGED <<out, params, inspected>>
           ELSE /\ pc' = [pc EXCEPT ![c] = "open"]
                /\ file_path' = [file_path EXCEPT ![c] = fp]
                /\ params' = [params EXCEPT ![c] = PlanFor(filename[c], fp)]
                /\ inspected' = [inspected EXCEPT ![c] = Inspection(filename[c], fp)]
                /\ UNCHANGED out
  /\ UNCHANGED <<httpVars, reqVars, inbox, peerGone, peerSent, clientState, discAt,
                 echoVars, loopVars, tmp, encLog, encResult, excVars>>

\* ------------------------------------------------- play: _convert_mp3_to_l16

\* How the start of the encoder process can end: it runs, the executable is
\* missing (FileNotFoundError), or the start raises another exception.
SpawnOutcomes == {"started", "FileNotFoundError", "Exception"}

\* asyncio.create_subprocess_exec(*ffmpeg_cmd): the command line is built
\* and the process started.  An exception makes the converter return None,
\* and the validator closes the channel.
SpawnEncoder(c) ==
  /\ pc[c] = "spawn"
  /\ encLog' = [encLog EXCEPT ![c] = Append(@, FfmpegCmd(file_path[c], filename[c]))]
  /\ \E res \in SpawnOutcomes :
       /\ encResult' = [encResult EXCEPT ![c] =
            [NoRun EXCEPT !.spawn = res, !.alive = (res = "started")]]
       /\ IF res = "started"
          THEN /\ pc' = [pc EXCEPT ![c] = "encoding"]
               /\ UNCHANGED out
          ELSE CloseAndReturn(c, "MP3 conversion failed")
  /\ UNCHANGED <<httpVars, reqVars, inbox, peerGone, peerSent, clientState, discAt,
                 echoVars, planVars, loopVars, tmp, fsLog, excVars>>

\* What the encoder process can do: timedOut says it had not exited after
\* 60 s and was killed, rc is its exit status (that of a killed process
\* after a timeout), written the length of the output file it left (Absent:
\* it wrote none).  It can write only into an existing directory.
EncoderRuns(fname) ==
  IF TempParentExists(fname)
  THEN [timedOut : {FALSE}, rc : {0}, written : EncodedLens \cup {Absent}]
       \cup [timedOut : {FALSE}, rc : {1}, written : {1, Absent}]
       \cup [timedOut : {TRUE}, rc : {-9}, written : {1, Absent}]
  ELSE [timedOut : {FALSE}, rc : {1}, written : {Absent}]

\* The temp directory after the encoder ran: -y overwrites the output.
TmpAfterRun(run, tp) == IF run.written = Absent THEN tmp ELSE [tmp EXCEPT ![tp] = run.written]

\* Mutant of ConvertReturns: the output file is not verified.
ConvertReturnsUnverified(run, tmpAfter, tp) ==
  IF run.timedOut THEN <<>>
  ELSE IF run.rc # 0 THEN <<>>
  ELSE tp

\* Mutant of ConvertReturns: the exit status is not looked at.
ConvertReturnsIgnoresExit(run, tmpAfter, tp) ==
  IF run.timedOut THEN <<>>
  ELSE IF tmpAfter[tp] = Absent \/ tmpAfter[tp] = 0 THEN <<>>
  ELSE tp

\* What _convert_mp3_to_l16 returns after the process ended: the temp path
\* when the process exited with 0 and the output exists and is not empty,
\* else None (<<>>).
ConvertReturns(run, tmpAfter, tp) ==
  IF run.timedOut THEN <<>>
  ELSE IF run.rc # 0 THEN <<>>
  ELSE IF tmpAfter[tp] = Absent \/ tmpAfter[tp] = 0 THEN <<>>
  ELSE tp

\* The sessions that hold the temp path `tp` open for reading.
Readers(tp) ==
  { d \in Conns : openFile[d] = tp /\ pc[d] \in {"check", "read", "send", "sleep"} }

\* The length each session's open file has after the encoder of session c
\* ran: -y makes the encoder truncate and rewrite the file at `tp` in place,
\* so a session that holds it open reads the new file from its own position.
\* (A session of the model holds a temp file open only while it is linked at
\* its path: the file is unlinked by the clean-up of the sessions that name
\* it, and a session that encodes or reads has not reached its clean-up.)
OpenLenAfterRun(c, run, tp) ==
  [d \in Conns |->
     IF d # c /\ d \in Readers(tp) /\ run.written # Absent
     THEN run.written ELSE openLen[d]]

\* Mutant of Reaped: the converter does not wait for the killed process.
ReapedNever(r) == r

\* await process.wait() after process.kill(): the process has ended.
Reaped(r) == [r EXCEPT !.alive = FALSE]

\* await asyncio.wait_for(process.communicate(), timeout=60) returns or
\* times out.  When it returns, the process has ended: the converter
\* returns, and the validator closes the channel or computes the plan for
\* the converted file.  When it times out, the converter kills the process
\* and waits for its end.
EncoderExit(c) ==
  /\ pc[c] = "encoding"
  /\ \E run \in EncoderRuns(filename[c]) :
       LET tp == TempPath(filename[c])
           after == TmpAfterRun(run, tp)
           converted == ConvertReturns(run, after, tp)
       IN /\ tmp' = after
          /\ openLen' = OpenLenAfterRun(c, run, tp)
          /\ encResult' = [encResult EXCEPT ![c] =
               [spawn |-> "started", alive |-> run.timedOut,
                timedOut |-> run.timedOut, rc |-> run.rc,
                written |-> run.written, outLen |-> after[tp]]]
          /\ fsLog' = [fsLog EXCEPT ![c] =
               IF ~run.timedOut /\ run.rc = 0 THEN Append(@, FsOp("stat", tp)) ELSE @]
          /\ IF run.timedOut
             THEN /\ pc' = [pc EXCEPT ![c] = "reaping"]
                  /\ UNCHANGED <<out, planVars>>
             ELSE IF converted = <<>>
             THEN /\ CloseAndReturn(c, "MP3 conversion failed")
                  /\ UNCHANGED planVars
             ELSE /\ pc' = [pc EXCEPT ![c] = "open"]
                  /\ file_path' = [file_path EXCEPT ![c] = converted]
                  /\ params' = [params EXCEPT ![c] = PlanFor(filename[c], converted)]
                  /\ inspected' = [inspected EXCEPT ![c] =
                       Inspection(filename[c], converted)]
                  /\ UNCHANGED out
  /\ UNCHANGED <<httpVars, reqVars, inbox, peerGone, peerSent, clientState, discAt,
                 echoVars, header_skip, openFile, pos, chunk, chunk_count,
                 bytes_sent, encLog, excVars>>

\* The killed process has ended: process.wait() returns, the converter
\* returns None, and the validator closes the channel.
ReapEncoder(c) ==
  /\ pc[c] = "reaping"
  /\ encResult' = [encResult EXCEPT ![c] = Reaped(@)]
  /\ CloseAndReturn(c, "MP3 conversion failed")
  /\ UNCHANGED <<httpVars, reqVars, inbox, peerGone, peerSent, clientState, discAt,
                 echoVars, planVars, loopVars, tmp, fsLog, encLog, excVars>>

\* ---------------------------------------------------- play: _stream_audio_file

\* Mutant of HeaderSkip: 44 bytes are skipped of every file.
HeaderSkipAlways(path) == WavHeaderSkip

\* Mutant of HeaderSkip: the .wav header is streamed too.
HeaderSkipNone(path) == 0

\* header_skip: 44 for a .wav path, else 0.
HeaderSkip(path) == IF Lower(Suffix(path)) = ".wav" THEN WavHeaderSkip ELSE 0

\* Mutant of ReadLen: a read that meets the end of the file returns nothing.
ReadLenWholeOnly(p, n, len) == IF len - p < n THEN 0 ELSE n

\* audio_file.read(n) at position p of a file of length len: the number of
\* bytes read (none at or past the end of the file).
ReadLen(p, n, len) == IF len <= p THEN 0 ELSE IF len - p < n THEN len - p ELSE n

\* Mutant of StreamRaises: the exception is logged and the loop goes on.
StreamRaisesRetries(c, exc) ==
  /\ pc' = [pc EXCEPT ![c] = "sleep"]
  /\ caught' = [caught EXCEPT ![c] = exc]
  /\ loopExit' = [loopExit EXCEPT ![c] = "error"]
  /\ UNCHANGED raised

\* An exception leaves _stream_audio_file: handle_audio_file_stream catches
\* it (WebSocketDisconnect, FileNotFoundError, Exception) and returns.  The
\* clean-up after the loop is not reached.
StreamRaises(c, exc) ==
  /\ pc' = [pc EXCEPT ![c] = "returned"]
  /\ caught' = [caught EXCEPT ![c] = exc]
  /\ loopExit' = [loopExit EXCEPT ![c] = "error"]
  /\ UNCHANGED raised

\* The file is opened and its header skipped: aiofiles.open(file_path, 'rb')
\* and read(header_skip).  Opening a path that is gone raises
\* FileNotFoundError.
OpenFile(c) ==
  /\ pc[c] = "open"
  /\ LET real == ResolveAny(file_path[c], TmpNames)
         hs == HeaderSkip(file_path[c])
     IN /\ fsLog' = [fsLog EXCEPT ![c] = Append(@, FsOp("open", file_path[c]))]
        /\ IF real = NoEnt
           THEN /\ StreamRaises(c, "FileNotFoundError")
                /\ UNCHANGED loopVars
           ELSE /\ header_skip' = [header_skip EXCEPT ![c] = hs]
                /\ openFile' = [openFile EXCEPT ![c] = real]
                /\ openLen' = [openLen EXCEPT ![c] = FileLen(real)]
                /\ pos' = [pos EXCEPT ![c] = ReadLen(0, hs, FileLen(real))]
                /\ chunk_count' = [chunk_count EXCEPT ![c] = 0]
                /\ bytes_sent' = [bytes_sent EXCEPT ![c] = 0]
                /\ pc' = [pc EXCEPT ![c] = "check"]
                /\ UNCHANGED <<chunk, excVars>>
  /\ UNCHANGED <<httpVars, reqVars, chanVars, echoVars, planVars, tmp, encLog, encResult>>

\* Mutant of CheckResult: every message that waits counts as a disconnect.
CheckResultAnyMessage(q) == q # <<>>

\* _check_client_disconnected: one receive with a 0.1 ms timeout.  With no
\* message waiting it times out (False); a message that waits is taken off
\* the channel, and the answer is whether it is the disconnect message.
CheckResult(q) ==
  IF q = <<>> THEN FALSE ELSE Head(q).type = "websocket.disconnect"

\* Mutant of CheckDisconnected: the check waits until a message arrives.
CheckDisconnectedBlocks(c) ==
  /\ pc[c] = "check"
  /\ inbox[c] # <<>>
  /\ inbox' = [inbox EXCEPT ![c] = Tail(@)]
  /\ clientState' = [clientState EXCEPT ![c] =
       IF CheckResult(inbox[c]) THEN "DISCONNECTED" ELSE @]
  /\ pc' = [pc EXCEPT ![c] = IF CheckResult(inbox[c]) THEN "cleanup" ELSE "read"]
  /\ loopExit' = [loopExit EXCEPT ![c] =
       IF CheckResult(inbox[c]) THEN "disconnect" ELSE @]
  /\ UNCHANGED <<httpVars, reqVars, peerGone, peerSent, out, discAt, echoVars, planVars,
                 loopVars, tmp, logVars, caught, raised>>

\* if await _check_client_disconnected(websocket): break
CheckDisconnected(c) ==
  /\ pc[c] = "check"
  /\ inbox' = [inbox EXCEPT ![c] = IF @ = <<>> THEN @ ELSE Tail(@)]
  /\ clientState' = [clientState EXCEPT ![c] =
       IF CheckResult(inbox[c]) THEN "DISCONNECTED" ELSE @]
  /\ pc' = [pc EXCEPT ![c] = IF CheckResult(inbox[c]) THEN "cleanup" ELSE "read"]
  /\ loopExit' = [loopExit EXCEPT ![c] =
       IF CheckResult(inbox[c]) THEN "disconnect" ELSE @]
  /\ UNCHANGED <<httpVars, reqVars, peerGone, peerSent, out, discAt, echoVars, planVars,
                 loopVars, tmp, logVars, caught, raised>>

\* chunk = await audio_file.read(chunk_size); an empty chunk ends the loop,
\* any other is counted.  The read may raise (an I/O error).
ReadChunk(c) ==
  /\ pc[c] = "read"
  /\ \/ LET n == ReadLen(pos[c], params[c].chunk_size, openLen[c])
        IN IF n = 0
           THEN /\ pc' = [pc EXCEPT ![c] = "cleanup"]
                /\ loopExit' = [loopExit EXCEPT ![c] = "exhausted"]
                /\ UNCHANGED <<loopVars, caught, raised>>
           ELSE /\ chunk' = [chunk EXCEPT ![c] = Chunk(openFile[c], pos[c], n)]
                /\ pos' = [pos EXCEPT ![c] = @ + n]
                /\ chunk_count' = [chunk_count EXCEPT ![c] = @ + 1]
                /\ bytes_sent' = [bytes_sent EXCEPT ![c] = @ + n]
                /\ pc' = [pc EXCEPT ![c] = "send"]
                /\ UNCHANGED <<header_skip, openFile, openLen, excVars>>
     \/ /\ StreamRaises(c, "Exception")
        /\ UNCHANGED loopVars
  /\ UNCHANGED <<httpVars, reqVars, chanVars, echoVars, planVars, tmp, logVars>>

\* await websocket.send_bytes(chunk)
SendChunk(c) ==
  /\ pc[c] = "send"
  /\ \E res \in SendOutcomes(c) :
       IF res = "ok"
       THEN /\ out' = [out EXCEPT ![c] = Append(@, SentBytes(chunk[c]))]
            /\ pc' = [pc EXCEPT ![c] = "sleep"]
            /\ UNCHANGED excVars
       ELSE /\ StreamRaises(c, res)
            /\ UNCHANGED out
  /\ UNCHANGED <<httpVars, reqVars, inbox, peerGone, peerSent, clientState, discAt,
                 echoVars, planVars, loopVars, tmp, logVars>>

\* Mutant of Sleep: after the sleep the loop reads on without checking for
\* a disconnect.
SleepSkipsCheck(c) ==
  /\ pc[c] = "sleep"
  /\ pc' = [pc EXCEPT ![c] = "read"]
  /\ UNCHANGED <<httpVars, reqVars, chanVars, echoVars, planVars, loopVars, tmp,
                 logVars, excVars>>

\* await asyncio.sleep(sleep_time)
Sleep(c) ==
  /\ pc[c] = "sleep"
  /\ pc' = [pc EXCEPT ![c] = "check"]
  /\ UNCHANGED <<httpVars, reqVars, chanVars, echoVars, planVars, loopVars, tmp, logVars,
                 excVars>>

\* Mutant of IsConvertedTemp: the clean-up deletes whatever was streamed.
IsConvertedTempAnyFile(path) == TRUE

\* The clean-up deletes this path: its suffix is .raw and its name holds
\* "converted_".
IsConvertedTemp(path) ==
  Lower(Suffix(path)) = ".raw" /\ Contains(PathName(path), "converted_")

\* After the loop: the file is closed, a converted temp file is unlinked (a
\* failure of unlink is caught and logged), the totals are logged, and the
\* handler returns.
Cleanup(c) ==
  /\ pc[c] = "cleanup"
  /\ IF IsConvertedTemp(file_path[c])
     THEN /\ tmp' = [p \in AllTempPaths |-> IF p = file_path[c] THEN Absent ELSE tmp[p]]
          /\ fsLog' = [fsLog EXCEPT ![c] = Append(@, FsOp("unlink", file_path[c]))]
     ELSE UNCHANGED <<tmp, fsLog>>
  /\ pc' = [pc EXCEPT ![c] = "returned"]
  /\ UNCHANGED <<httpVars, reqVars, chanVars, echoVars, planVars, loopVars, encLog,
                 encResult, excVars>>

\* ------------------------------------------- HTTP: handle_stts_request

\* The speech routes of main.py and the agent type each hands to
\* handle_stts_request ("/stts" uses OpenAI).
SttsPaths == {"/stts/openai", "/stts/ollama", "/stts"}
AgentType(path) == IF path = "/stts/ollama" THEN "ollama" ELSE "openai"

\* get_ai_agent_function: the query function of an agent type, or ValueError.
AgentFunction(agent_type) ==
  CASE agent_type = "openai" -> "query_openai"
    [] agent_type = "ollama" -> "query_ollama"
    [] OTHER -> "ValueError"

\* A speech result: its text and its confidence, in percent; `parses` says
\* whether float() accepts the confidence.
Result(text, confidence, parses) ==
  [text |-> text, confidence |-> confidence, parses |-> parses]

\* The results lists of the payloads: none, two results (the second the
\* more confident), a blank text, a confidence that is no number.
ResultLists ==
  { <<>>,
    <<Result("no", 10, TRUE), Result("yes", 95, TRUE)>>,
    <<Result(" ", 50, TRUE)>>,
    <<Result("maybe", 0, FALSE)>> }

ConversationIds == {"", "conv-1", "conv-2"}

Bodies ==
  { Body("notjson", "", FALSE, <<>>), Body("list", "", FALSE, <<>>) }
  \cup { Body("dict", u, FALSE, <<>>) : u \in ConversationIds }
  \cup { Body("dict", u, TRUE, r) : u \in ConversationIds, r \in ResultLists }

\* max(speech_results, key=lambda x: float(x.get('confidence', 0) or 0)):
\* the first result of the highest confidence.
RECURSIVE MaxResult(_)
MaxResult(results) ==
  IF Len(results) = 1 THEN results[1]
  ELSE LET rest == MaxResult(Tail(results))
       IN IF rest.confidence > Head(results).confidence THEN rest ELSE Head(results)

\* speech_storage[conversation_uuid] = text
Store(storage, uuid, text) ==
  [u \in DOMAIN storage \cup {uuid} |-> IF u = uuid THEN text ELSE storage[u]]

\* process_speech_results: speech_storage after the call.  A payload
\* without results or without a conversation leaves it alone; a confidence
\* that is no number stores the empty text.
ProcessSpeechResults(payload, storage) ==
  IF ~payload.has_speech \/ payload.results = <<>> THEN storage
  ELSE IF payload.conversation_uuid = "" THEN storage
  ELSE IF \E i \in 1..Len(payload.results) : ~payload.results[i].parses
       THEN Store(storage, payload.conversation_uuid, "")
  ELSE Store(storage, payload.conversation_uuid, MaxResult(payload.results).text)

\* str.strip() == ""
IsBlank(text) == text \in {"", " "}

\* What the agent's query function can return for a text: the model's
\* reply, or its apology when the key is missing or the query fails.
AgentOutcomes(agent_type) ==
  IF agent_type = "openai" THEN {"reply", "unavailable", "error"}
  ELSE {"reply", "error"}

\* generate_speech_response_ncco: the talk action of the NCCO.
SpeechResponseTalk(uuid, storage, outcome) ==
  IF uuid # "" /\ uuid \in DOMAIN storage
  THEN (IF IsBlank(storage[uuid]) THEN Talk("repeat", "")
        ELSE Talk(outcome, storage[uuid]))
  ELSE Talk("greeting", "")

\* GET on a speech route: the NCCO of generate_initial_speech_ncco.
SttsGet(path) ==
  /\ served < MaxRequests
  /\ served' = served + 1
  /\ response' =
       IF AgentFunction(AgentType(path)) = "ValueError"
       THEN Response(path, "GET", NoBody, HttpBadRequest, Talk("none", ""), "")
       ELSE Response(path, "GET", NoBody, HttpOk, Talk("initial", ""), AgentType(path))
  /\ UNCHANGED <<callback_storage, speech_storage>>
  /\ UNCHANGED <<reqVars, pc, chanVars, echoVars, planVars, loopVars, tmp,
                 logVars, excVars, audio_response>>

\* POST on a speech route, the speech-input callback: the payload is stored,
\* its speech results processed, and the NCCO generated from the stored
\* speech is returned in the response.  A body that is no JSON object ends
\* in the handler's except branch, which returns the fallback NCCO.
SttsPost(path) ==
  /\ served < MaxRequests
  /\ served' = served + 1
  /\ \E payload \in Bodies, outcome \in AgentOutcomes(AgentType(path)) :
       LET agent == AgentType(path)
           stored == ProcessSpeechResults(payload, speech_storage)
       IN IF AgentFunction(agent) = "ValueError"
          THEN /\ response' =
                    Response(path, "POST", payload, HttpBadRequest, Talk("none", ""), "")
               /\ UNCHANGED <<callback_storage, speech_storage>>
          ELSE IF payload.form = "notjson"
          THEN /\ response' =
                    Response(path, "POST", payload, HttpOk, Talk("repeat", ""), agent)
               /\ UNCHANGED <<callback_storage, speech_storage>>
          ELSE IF payload.form = "list"
          THEN /\ callback_storage' = Append(callback_storage, payload)
               /\ response' =
                    Response(path, "POST", payload, HttpOk, Talk("repeat", ""), agent)
               /\ UNCHANGED speech_storage
          ELSE /\ callback_storage' = Append(callback_storage, payload)
               /\ speech_storage' = stored
               /\ response' =
                    Response(path, "POST", payload, HttpOk,
                             SpeechResponseTalk(payload.conversation_uuid, stored, outcome),
                             agent)
  /\ UNCHANGED <<reqVars, pc, chanVars, echoVars, planVars, loopVars, tmp,
                 logVars, excVars, audio_response>>

\* ------------------------------------------------- HTTP: serve_audio_file

\* Path.resolve() of a path that need not exist (strict=False): a component
\* that cannot be walked is kept as it is written, ".." drops the last
\* component, a symbolic link is followed.
RECURSIVE WalkLoose(_, _)
WalkLoose(at, comps) ==
  IF comps = <<>> THEN at
  ELSE IF Head(comps) = DotDot
       THEN WalkLoose(IF at = <<>> THEN at ELSE Front(at), Tail(comps))
  ELSE LET p == Append(at, Head(comps))
       IN WalkLoose(IF p = LinkPath THEN LinkTarget ELSE p, Tail(comps))

ResolveLoose(path) == WalkLoose(Cwd, path)

\* supported_formats of serve_audio_file
HttpSupportedFormats == {".mp3", ".wav", ".ogg", ".m4a", ".flac", ".aac"}

\* Mutant of ServeAudioStatus: the extension check is left out.
ServeAudioStatusAnyFormat(fname, tmpNames) ==
  LET fp == JoinPath(fname)
  IN IF ~IsRelativeTo(ResolveLoose(fp), ResolveLoose(<<AudioFiles>>))
     THEN HttpBadRequest
     ELSE IF ~Exists(fp, tmpNames) THEN HttpNotFound
     ELSE HttpOk

\* The status serve_audio_file answers a name with.  The checks run in the
\* order containment in the audio root, existence, extension.
ServeAudioStatus(fname, tmpNames) ==
  LET fp == JoinPath(fname)
  IN IF ~IsRelativeTo(ResolveLoose(fp), ResolveLoose(<<AudioFiles>>))
     THEN HttpBadRequest
     ELSE IF ~Exists(fp, tmpNames) THEN HttpNotFound
     ELSE IF Lower(Suffix(fp)) \notin HttpSupportedFormats THEN HttpBadRequest
     ELSE HttpOk

\* GET /audio/{filename}
ServeAudioFile(fname) ==
  /\ served < MaxRequests
  /\ served' = served + 1
  /\ audio_response' = AudioResponse(fname, ServeAudioStatus(fname, TmpNames))
  /\ UNCHANGED <<callback_storage, speech_storage, response>>
  /\ UNCHANGED <<reqVars, pc, chanVars, echoVars, planVars, loopVars, tmp,
                 logVars, excVars>>

\* ------------------------------------------------------------ specification

\* A step of the connection's peer or of its handler.
ConnStep(c) ==
  \/ PeerSend(c)
  \/ PeerDisconnect(c)
  \/ EchoReceive(c)
  \/ EchoSendBytes(c)
  \/ EchoSendText(c)
  \/ Validate(c)
  \/ SpawnEncoder(c)
  \/ EncoderExit(c)
  \/ ReapEncoder(c)
  \/ OpenFile(c)
  \/ CheckDisconnected(c)
  \/ ReadChunk(c)
  \/ SendChunk(c)
  \/ Sleep(c)
  \/ Cleanup(c)

Next == ConnStep(1)

Spec == Init /\ [][Next]_vars

\* ------------------------------------------- specification: two play sessions

\* The resource names of two /ws/play sessions that run at the same time:
\* the same .mp3 twice, two different .mp3, an .mp3 and a .wav, the same
\* .wav twice.
PairRequests ==
  { << <<"song", ".mp3">>, <<"song", ".mp3">> >>,
    << <<"song", ".mp3">>, <<"song", "16000", ".mp3">> >>,
    << <<"song", ".mp3">>, <<"tone", ".wav">> >>,
    << <<"tone", ".wav">>, <<"tone", ".wav">> >> }

\* Two accepted /ws/play connections; uvicorn runs each connection's
\* endpoint as a task of its own on the one event loop.
InitPair ==
  /\ InitCommon
  /\ rootLen = WavHeaderSkip + ChunkSize8k + 5
  /\ rootHeader = PlainHeader(rootLen)
  /\ \E r \in PairRequests :
       InitRequests([c \in Conns |-> PlayReq(r[c])])

\* A step of a /ws/play connection: its peer leaves, or its handler runs to
\* its next await.
PlayStep(c) ==
  \/ PeerDisconnect(c)
  \/ Validate(c)
  \/ SpawnEncoder(c)
  \/ EncoderExit(c)
  \/ ReapEncoder(c)
  \/ OpenFile(c)
  \/ CheckDisconnected(c)
  \/ ReadChunk(c)
  \/ SendChunk(c)
  \/ Sleep(c)
  \/ Cleanup(c)

NextPair == \E c \in Conns : PlayStep(c)

SpecPair == InitPair /\ [][NextPair]_vars

\* --------------------------------------- specification: .wav sessions

\* The .wav names of the audio root: one without a rate hint, one with.
WavRequests == { <<"tone", ".wav">>, <<"tone", "16000", ".wav">> }

\* The lengths of the .wav file: shorter than a header, and a header with
\* more than one chunk.
WavLens == { 20, WavHeaderSkip + ChunkSize8k + 5 }

\* One accepted /ws/play connection for a .wav file, whose head is any a
\* file of its length can have.
InitWav ==
  /\ InitCommon
  /\ rootLen \in WavLens
  /\ \E f \in WavRequests :
       InitRequests([c \in Conns |-> IF c = 1 THEN PlayReq(f) ELSE NoReq])

\* A step of a /ws/play connection whose source is not transcoded.
WavStep(c) ==
  \/ PeerDisconnect(c)
  \/ Validate(c)
  \/ OpenFile(c)
  \/ CheckDisconnected(c)
  \/ ReadChunk(c)
  \/ SendChunk(c)
  \/ Sleep(c)
  \/ Cleanup(c)

NextWav == WavStep(1)

SpecWav == InitWav /\ [][NextWav]_vars

\* ------------------------------- specification: a peer that only listens

\* One accepted /ws/play connection whose peer stays connected and sends
\* nothing.
InitQuiet ==
  /\ InitCommon
  /\ \E r \in { PlayReq(f) : f \in Filenames } :
       /\ InitRequests([c \in Conns |-> IF c = 1 THEN r ELSE NoReq])
       /\ ReadsNoRootFile(r) => rootLen = WavHeaderSkip
  /\ rootHeader = PlainHeader(rootLen)

\* A step of the connection's handler.
QuietStep(c) ==
  \/ Validate(c)
  \/ SpawnEncoder(c)
  \/ EncoderExit(c)
  \/ ReapEncoder(c)
  \/ OpenFile(c)
  \/ CheckDisconnected(c)
  \/ ReadChunk(c)
  \/ SendChunk(c)
  \/ Sleep(c)
  \/ Cleanup(c)

NextQuiet == QuietStep(1)

\* The event loop runs the handler whenever it can go on: every await of
\* the handler ends (the check after 0.1 ms, the sleep after 20 ms, the
\* encoder after 60 s at most, a send to a connected peer, a file read).
SpecQuiet == InitQuiet /\ [][NextQuiet]_vars /\ WF_vars(NextQuiet)

\* ------------------------------------------- specification: the echo session

\* One accepted /ws/echo connection.
InitEcho ==
  /\ InitCommon
  /\ InitRequests([c \in Conns |-> IF c = 1 THEN EchoReq ELSE NoReq])
  /\ rootLen = WavHeaderSkip
  /\ rootHeader = PlainHeader(rootLen)

\* A step of handle_audio_stream.
EchoHandlerStep(c) ==
  \/ EchoReceive(c)
  \/ EchoSendBytes(c)
  \/ EchoSendText(c)

NextEcho ==
  \/ PeerSend(1)
  \/ PeerDisconnect(1)
  \/ EchoHandlerStep(1)

\* The event loop runs the handler whenever it can go on; the peer sends or
\* leaves when it likes.
SpecEcho == InitEcho /\ [][NextEcho]_vars /\ WF_vars(EchoHandlerStep(1))

\* ------------------------------ specification: the two ways to a file

\* The names requested of the two endpoints: those of the play sessions,
\* a directory, a file used as a directory, a missing directory left again.
AudioNames ==
  Filenames \cup
  { <<"sub">>,
    <<"tone", ".wav", "/", "..", "/", "clip", ".ogg">>,
    <<"nodir", "/", "..", "/", "tone", ".wav">> }

\* One accepted /ws/play connection, and GET /audio requests.
InitAudio ==
  /\ InitCommon
  /\ \E f \in AudioNames :
       InitRequests([c \in Conns |-> IF c = 1 THEN PlayReq(f) ELSE NoReq])
  /\ rootLen = WavHeaderSkip
  /\ rootHeader = PlainHeader(rootLen)

NextAudio ==
  \/ Validate(1)
  \/ \E f \in AudioNames : ServeAudioFile(f)

SpecAudio == InitAudio /\ [][NextAudio]_vars

\* ------------------------------------------ specification: speech endpoints

\* The application with no WebSocket connection: requests on the speech
\* routes only.
InitStts ==
  /\ InitCommon
  /\ rootLen = WavHeaderSkip
  /\ rootHeader = PlainHeader(rootLen)
  /\ InitRequests([c \in Conns |-> NoReq])

NextStts == \E path \in SttsPaths : SttsGet(path) \/ SttsPost(path)

SpecStts == InitStts /\ [][NextStts]_vars

\* ------------------------------------------------------- claims: vocabulary

PlayConns == { c \in Conns : endpoint[c] = "play" }
EchoConns == { c \in Conns : endpoint[c] = "echo" }

BytesEvents(s) == SelectSeq(s, LAMBDA e : e.kind = "bytes")
TextEvents(s) == SelectSeq(s, LAMBDA e : e.kind = "text")

\* The payloads of the binary frames the server sent, in order.
SentData(c) == LET b == BytesEvents(out[c]) IN [i \in 1..Len(b) |-> b[i].data]

IsPrefix(a, b) == Len(a) <= Len(b) /\ SubSeq(b, 1, Len(a)) = a

\* The chunks are the bytes file[from .. to-1], in order, each byte once.
Tiles(chunks, file, from, to) ==
  IF chunks = <<>> THEN from >= to
  ELSE /\ chunks[1].off = from
       /\ Last(chunks).off + Last(chunks).len = to
       /\ \A i \in 1..Len(chunks) :
            /\ chunks[i].file = file
            /\ chunks[i].len > 0
            /\ i < Len(chunks) => chunks[i + 1].off = chunks[i].off + chunks[i].len

\* The extension of the requested name, lower-cased.
RequestedSuffix(c) == Lower(Suffix(JoinPath(filename[c])))

\* Where the requested name leads on the file system (NoEnt: nowhere).
RequestedReal(c) == Resolve(JoinPath(filename[c]), {})

\* The file the session has to stream and its length: the encoder's output
\* for an .mp3 request, else the requested file itself.
SourceFile(c) ==
  IF RequestedSuffix(c) = ".mp3" THEN TempPath(filename[c]) ELSE RequestedReal(c)
SourceLen(c) ==
  IF RequestedSuffix(c) = ".mp3" THEN encResult[c].outLen ELSE rootLen
SourceHeaderSkip(c) == IF RequestedSuffix(c) = ".wav" THEN WavHeaderSkip ELSE 0

\* ---------------------------------------------------------------------- C1

UnderAudioRoot(real) == real \in RootFiles

\* The path is a file under the audio root or the temp file transcoded, for
\* this session, from a request that leads to one.
RootOrOwnArtifact(c, real) ==
  \/ UnderAudioRoot(real)
  \/ real = TempPath(filename[c]) /\ UnderAudioRoot(RequestedReal(c))

\* C2: every file whose bytes a /ws/play session sends is a file under the
\* audio root or the temp file transcoded from one, and no session opens for
\* streaming, or hands to the encoder, a path that resolves outside the root.
C2_NeverStreamsOutsideRoot ==
  \A c \in PlayConns :
    /\ \A i \in 1..Len(SentData(c)) : RootOrOwnArtifact(c, SentData(c)[i].file)
    /\ \A i \in 1..Len(fsLog[c]) :
         fsLog[c][i].op = "open" =>
           RootOrOwnArtifact(c, ResolveAny(fsLog[c][i].path, {fsLog[c][i].path}))
    /\ \A i \in 1..Len(encLog[c]) :
         UnderAudioRoot(Resolve(encLog[c][i].input, {}))

\* Bytes of a transcoded temp file were sent.
C2_Witness ==
  \E c \in PlayConns :
    /\ SentData(c) # <<>>
    /\ SentData(c)[1].file \in AllTempPaths

\* ---------------------------------------------------------------------- C3

\* C3: a request whose name holds a path-traversal sequence is rejected with
\* the invalid-path outcome whether or not the path exists, and before any
\* file is opened or probed.
C3_TraversalRejectedBeforeAnyProbe ==
  \A c \in PlayConns :
    HasTraversal(filename[c]) =>
      /\ fsLog[c] = <<>>
      /\ pc[c] # "validate" => /\ pc[c] = "returned"
                               /\ out[c] = <<SentClose(CloseCode, "Invalid file path")>>

\* ---------------------------------------------------------------------- C4

\* The requested name's extension is not in the allow-list.
UnsupportedRequest(c) == RequestedSuffix(c) \notin SupportedFormats

\* C4 (as stated): a request whose extension is not in the allow-list is
\* rejected with the unsupported-format outcome, the encoder is never run
\* and no binary frame is sent.
C4_UnsupportedAlwaysSaysUnsupported ==
  \A c \in PlayConns :
    UnsupportedRequest(c) =>
      /\ encLog[c] = <<>>
      /\ SentData(c) = <<>>
      /\ pc[c] # "validate" => /\ pc[c] = "returned"
                               /\ out[c] = <<SentClose(CloseCode, "Unsupported audio format")>>

\* The reason the validator gives a request with an unsupported extension:
\* that of the earlier check when the file is missing or outside the root.
UnsupportedReason(c) ==
  IF RequestedReal(c) = NoEnt THEN "File not found"
  ELSE IF ~UnderAudioRoot(RequestedReal(c)) THEN "Invalid file path"
  ELSE "Unsupported audio format"

\* C4 (amended): a request whose extension is not in the allow-list is
\* rejected with close code 1003 - with the unsupported-format reason when
\* the file exists inside the audio root, else with the not-found or
\* invalid-path reason of the earlier check -, the encoder is never run and
\* no binary frame is sent.
C4_UnsupportedRejected ==
  \A c \in PlayConns :
    UnsupportedRequest(c) =>
      /\ encLog[c] = <<>>
      /\ SentData(c) = <<>>
      /\ pc[c] # "validate" => /\ pc[c] = "returned"
                               /\ out[c] = <<SentClose(CloseCode, UnsupportedReason(c))>>

\* An existing file of the audio root with an unsupported extension was
\* rejected.
C4_Witness ==
  \E c \in PlayConns :
    /\ UnsupportedRequest(c)
    /\ UnderAudioRoot(RequestedReal(c))
    /\ pc[c] = "returned"

\* ---------------------------------------------------------------------- C5

\* The session streams a temp file its converter created.
CreatedTemp(c) == file_path[c] \in AllTempPaths

\* C5: when a session that created a transcoded temp file has left the
\* streaming loop - by exhaustion, by an observed disconnect or by an
\* exception - the temp file is deleted by the time the handler returns.
C5_TempDeletedOnEveryExit ==
  \A c \in PlayConns :
    (pc[c] = "returned" /\ CreatedTemp(c) /\ loopExit[c] # "none") =>
      tmp[file_path[c]] = Absent

\* ---------------------------------------------------------------------- C6

\* The binary chunks sent since the peer's disconnect reached the channel.
SentSinceDisconnect(c) ==
  Len(BytesEvents(SubSeq(out[c], discAt[c] + 1, Len(out[c]))))

\* C6: once the peer's disconnect message is on the channel the streaming
\* loop sends at most one further chunk, whatever number of other frames the
\* peer sent before it.
C6_AtMostOneChunkAfterDisconnect ==
  \A c \in PlayConns : discAt[c] >= 0 => SentSinceDisconnect(c) <= 1

\* ---------------------------------------------------------------------- C7

\* C7: in every state of a /ws/play session the server has sent no text
\* frame: the channel carries only binary frames and a close.
C7_NoTextFrameOnPlay ==
  \A c \in PlayConns :
    \A i \in 1..Len(out[c]) : out[c][i].kind \in {"bytes", "close"}

\* A /ws/play session failed before streaming and closed the channel.
C7_Witness ==
  \E c \in PlayConns :
    /\ pc[c] = "returned"
    /\ out[c] # <<>>
    /\ Last(out[c]).kind = "close"

\* ---------------------------------------------------------------------- C8

\* The payloads of the binary frames the echo session received, in order.
RcvdBinary(c) ==
  LET b == SelectSeq(rcvd[c], LAMBDA m : "bytes" \in DOMAIN m)
  IN [i \in 1..Len(b) |-> b[i].bytes]

\* The echo session is between frames: waiting in receive, or returned.
EchoIdle(c) == pc[c] \in {"receive", "returned"}

\* A send of the echo session raised.
EchoSendRaised(c) == caught[c] # "none" \/ raised[c] # "none"

\* C8 (as stated): on the echo path the binary frames sent equal the binary
\* frames received, byte for byte, in order and multiplicity, the echo of a
\* frame being sent before the next frame is received.
C8_EchoEqualsInput ==
  \A c \in EchoConns :
    /\ Len(RcvdBinary(c)) - Len(SentData(c)) <= 1
    /\ EchoIdle(c) => SentData(c) = RcvdBinary(c)

\* C8 (amended): the binary frames sent are always a prefix of the binary
\* frames received, byte for byte and in order, behind by at most one frame
\* (the echo of a frame is sent before the next frame is received); the two
\* sequences are equal whenever the session is between frames, unless the
\* send_bytes of the last frame raised, which ends the session.
C8_EchoIsPrefixOfInput ==
  \A c \in EchoConns :
    /\ IsPrefix(SentData(c), RcvdBinary(c))
    /\ Len(RcvdBinary(c)) - Len(SentData(c)) <= 1
    /\ (EchoIdle(c) /\ ~EchoSendRaised(c)) => SentData(c) = RcvdBinary(c)
    /\ Len(RcvdBinary(c)) > Len(SentData(c)) =>
         \/ pc[c] = "send_bytes"
         \/ pc[c] = "returned" /\ EchoSendRaised(c) /\ "bytes" \in DOMAIN message[c]

\* Two different binary frames were echoed.
C8_Witness ==
  \E c \in EchoConns :
    /\ Len(SentData(c)) >= 2
    /\ SentData(c)[1] # SentData(c)[2]
    /\ pc[c] = "receive"

\* ---------------------------------------------------------------------- C9

\* The text frames the echo session received.
RcvdText(c) == SelectSeq(rcvd[c], LAMBDA m : "text" \in DOMAIN m)

\* What the echo session owes for the messages it received: the payload
\* back for a binary frame, the rejection for a text frame, nothing for any
\* other message.
RECURSIVE EchoOwed(_)
EchoOwed(msgs) ==
  IF msgs = <<>> THEN <<>>
  ELSE (IF "bytes" \in DOMAIN Head(msgs) THEN <<SentBytes(Head(msgs).bytes)>>
        ELSE IF "text" \in DOMAIN Head(msgs) THEN <<SentText(EchoRejection)>>
        ELSE <<>>) \o EchoOwed(Tail(msgs))

\* C9 (as stated): each text frame received on the echo path elicits exactly
\* one text rejection and nothing else, and the session stays open and
\* echoes the binary frames received afterwards.
C9_EveryTextRejectedOnce ==
  \A c \in EchoConns :
    /\ Len(BytesEvents(out[c])) <= Len(RcvdBinary(c))
    /\ \A i \in 1..Len(TextEvents(out[c])) :
         TextEvents(out[c])[i] = SentText(EchoRejection)
    /\ Len(RcvdText(c)) - Len(TextEvents(out[c])) =
         IF pc[c] = "send_text" THEN 1 ELSE 0
    /\ pc[c] = "returned" => "text" \notin DOMAIN message[c]

\* C9 (amended): each text frame received elicits at most one text rejection
\* and nothing else - exactly one unless its send_text raised, which ends
\* the session -, the server never closes the channel, and after a rejection
\* that was sent the session goes on: it ends only once the disconnect
\* message was received or a send raised.
C9_TextRejectedOnceUnlessSendRaises ==
  \A c \in EchoConns :
    /\ IsPrefix(out[c], EchoOwed(rcvd[c]))
    /\ Len(EchoOwed(rcvd[c])) - Len(out[c]) <= 1
    /\ (EchoIdle(c) /\ ~EchoSendRaised(c)) => out[c] = EchoOwed(rcvd[c])
    /\ pc[c] = "returned" => clientState[c] = "DISCONNECTED" \/ EchoSendRaised(c)

\* A text frame was rejected and a binary frame received after it echoed.
C9_Witness ==
  \E c \in EchoConns :
    /\ Len(out[c]) = 2
    /\ out[c][1] = SentText(EchoRejection)
    /\ out[c][2].kind = "bytes"
    /\ pc[c] = "receive"

\* --------------------------------------------------------------------- C10

\* The session's transcoding failed: the encoder could not be started, was
\* killed at the timeout, exited with a nonzero status, or left an empty or
\* no output.
TranscodeFailed(c) ==
  \/ encResult[c].spawn \in {"FileNotFoundError", "Exception"}
  \/ /\ encResult[c].spawn = "started"
     /\ pc[c] \notin {"encoding", "reaping"}
     /\ \/ encResult[c].timedOut
        \/ encResult[c].rc # 0
        \/ encResult[c].outLen \in {Absent, 0}

\* C10: when transcoding fails, for whatever reason, the session closes the
\* channel with an error status and sends no binary frame.
C10_TranscodeFailureClosesWithoutBytes ==
  \A c \in PlayConns :
    TranscodeFailed(c) =>
      /\ pc[c] = "returned"
      /\ out[c] = <<SentClose(CloseCode, "MP3 conversion failed")>>
      /\ CloseCode # 1000

\* The encoder reported success and left an empty output.
C10_Witness ==
  \E c \in PlayConns :
    /\ TranscodeFailed(c)
    /\ encResult[c].rc = 0
    /\ encResult[c].outLen = 0

\* --------------------------------------------------------------------- C11

\* The session has run its encoder and has not returned yet.
Transcoding(c) == encLog[c] # <<>> /\ pc[c] # "returned"

\* The temp output path the session's encoder was given.
EncoderOutput(c) == encLog[c][1].output

\* C11: any two /ws/play sessions that are active at the same time and both
\* transcode use different temp output paths, also when they request the
\* same resource name (so no session's encoder overwrites, and no session's
\* clean-up deletes, a file another session is reading).
C11_DistinctTempPaths ==
  \A c \in PlayConns, d \in PlayConns :
    (c # d /\ Transcoding(c) /\ Transcoding(d)) =>
      EncoderOutput(c) # EncoderOutput(d)

\* --------------------------------------------------------------------- C12

\* C12: a peer disconnect, transcode failure, channel error or clean-up in
\* one streaming session never changes the bytes another session sends and
\* never makes another session fail: a session whose validation (and
\* transcoding) succeeded finds its file when it opens it, and a session
\* that streams to the end of its source has sent the source it validated
\* or transcoded, whole.
C12_SessionsIndependent ==
  \A c \in PlayConns :
    /\ caught[c] # "FileNotFoundError"
    /\ loopExit[c] = "exhausted" =>
         Tiles(SentData(c), SourceFile(c), SourceHeaderSkip(c), SourceLen(c))

\* --------------------------------------------------------------------- C13

\* The kinds of failure before streaming.
FailureKinds == {"not_found", "invalid_path", "unsupported", "transcode"}

\* The request fails in this way.
KindHolds(c, k) ==
  CASE k = "not_found" -> RequestedReal(c) = NoEnt
    [] k = "invalid_path" -> RequestedReal(c) # NoEnt /\ ~UnderAudioRoot(RequestedReal(c))
    [] k = "unsupported" -> UnsupportedRequest(c)
    [] k = "transcode" -> TranscodeFailed(c)

\* The close reason that signals each kind.
ReasonOf(k) ==
  CASE k = "not_found" -> "File not found"
    [] k = "invalid_path" -> "Invalid file path"
    [] k = "unsupported" -> "Unsupported audio format"
    [] k = "transcode" -> "MP3 conversion failed"

CloseEvents(s) == SelectSeq(s, LAMBDA e : e.kind = "close")

\* C13: each failure before streaming (resource not found, invalid path,
\* unsupported format, transcode failure) closes the channel exactly once
\* with a close code other than 1000, and the code and reason sent tell the
\* four kinds apart: different kinds have different reasons, and the reason
\* sent is that of a kind of failure the request does have.
C13_PreStreamFailureClosesOnce ==
  /\ \A j \in FailureKinds, k \in FailureKinds :
       ReasonOf(j) = ReasonOf(k) => j = k
  /\ \A c \in PlayConns :
       /\ Len(CloseEvents(out[c])) <= 1
       /\ ((\E k \in FailureKinds : KindHolds(c, k)) /\ pc[c] # "validate") =>
            /\ pc[c] = "returned"
            /\ Len(out[c]) = 1
       /\ \A i \in 1..Len(out[c]) :
            out[c][i].kind = "close" =>
              /\ out[c][i].code # 1000
              /\ \E k \in FailureKinds :
                   out[c][i].reason = ReasonOf(k) /\ KindHolds(c, k)
       /\ (pc[c] = "returned" /\ loopExit[c] = "none" /\ caught[c] = "none") =>
            CloseEvents(out[c]) # <<>>

\* A request that leads to an existing file outside the audio root was
\* closed with the invalid-path reason.
C13_Witness ==
  \E c \in PlayConns :
    /\ pc[c] = "returned"
    /\ KindHolds(c, "invalid_path")
    /\ out[c] = <<SentClose(CloseCode, ReasonOf("invalid_path"))>>

\* --------------------------------------------------------------------- C14

\* C14: every /ws/play session that has ended - after the source was
\* exhausted, after a peer disconnect, after a mid-stream error - has issued
\* a close on the channel, unless the channel was closed already (the
\* session received the peer's disconnect).
C14_SessionClosesChannelAtEnd ==
  \A c \in PlayConns :
    pc[c] = "returned" =>
      \/ CloseEvents(out[c]) # <<>>
      \/ clientState[c] = "DISCONNECTED"

\* --------------------------------------------------------------------- C15

\* The session's pacing plan was computed.
Planned(c) == params[c] # NoParams

RECURSIVE Joined(_)
Joined(chunks) ==
  IF Len(chunks) <= 1 THEN chunks
  ELSE LET a == chunks[1]
           b == chunks[2]
       IN IF a.file = b.file /\ b.off = a.off + a.len
          THEN Joined(<<Chunk(a.file, a.off, a.len + b.len)>> \o SubSeq(chunks, 3, Len(chunks)))
          ELSE <<a>> \o Joined(Tail(chunks))

\* The bytes file[from .. to-1] as one piece of data (empty: no data).
Content(file, from, to) == IF to > from THEN <<Chunk(file, from, to - from)>> ELSE <<>>

\* The server ended the stream of a file it did not transcode.
StreamedWhole(c) == loopExit[c] = "exhausted" /\ RequestedSuffix(c) # ".mp3"

AnswersSpeechCallback(r) ==
  /\ r.path = "/stts/openai"
  /\ r.method = "POST"
  /\ r.payload.form = "dict"
  /\ r.payload.conversation_uuid # ""
  /\ r.payload.has_speech
  /\ r.payload.results # <<>>

\* C17: a POST to /stts/openai that carries a speech-input callback payload
\* is answered with HTTP 204 and no content (the speech is processed after
\* the response, not answered in its body).
C17_SpeechCallbackAnswered204 ==
  AnswersSpeechCallback(response) =>
    /\ response.status = 204
    /\ response.talk = Talk("none", "")

\* --------------------------------------------------------------------- C18

\* The state of a streaming session.
Phase(c) ==
  CASE pc[c] = "validate" -> "Validating"
    [] pc[c] \in {"spawn", "encoding", "reaping"} -> "Transcoding"
    [] pc[c] \in {"open", "check", "read", "send", "sleep"} -> "Streaming"
    [] pc[c] = "cleanup" -> "Draining"
    [] OTHER -> "Closed"

\* The moves of the state machine: forward in the order Validating,
\* Transcoding, Streaming, Draining, Closed; Transcoding may be left out,
\* and every state may go to Closed.
PhaseMoves ==
  { <<"Validating", "Transcoding">>, <<"Validating", "Streaming">>,
    <<"Transcoding", "Streaming">>, <<"Streaming", "Draining">>,
    <<"Draining", "Closed">> }
  \cup { <<p, "Closed">> : p \in {"Validating", "Transcoding", "Streaming"} }

\* Every check of the validator passes for the request.
ValidRequest(c) ==
  UnderAudioRoot(RequestedReal(c)) /\ RequestedSuffix(c) \in SupportedFormats

\* The session's transcoding has succeeded.
TranscodeSucceeded(c) ==
  /\ encResult[c].spawn = "started"
  /\ pc[c] # "encoding"
  /\ ~encResult[c].timedOut
  /\ encResult[c].rc = 0
  /\ encResult[c].outLen \notin {Absent, 0}

\* The session ran every check of the validator.
RanAllChecks(c) ==
  /\ Len(fsLog[c]) >= 3
  /\ SubSeq(fsLog[c], 1, 3) =
       <<FsOp("exists", JoinPath(filename[c])), FsOp("resolve", JoinPath(filename[c])),
         FsOp("resolve", <<AudioFiles>>)>>

\* What the order of the states means for a session's state.
OrderedSoFar(c) ==
  /\ SentData(c) # <<>> =>
       /\ Phase(c) \in {"Streaming", "Draining", "Closed"}
       /\ RanAllChecks(c) /\ ValidRequest(c)
       /\ RequestedSuffix(c) = ".mp3" => TranscodeSucceeded(c)
  /\ Phase(c) \in {"Streaming", "Draining"} =>
       /\ RanAllChecks(c) /\ ValidRequest(c)
       /\ RequestedSuffix(c) = ".mp3" => TranscodeSucceeded(c)
  /\ (encLog[c] # <<>> \/ Phase(c) = "Transcoding") =>
       RanAllChecks(c) /\ ValidRequest(c)
  /\ (Phase(c) = "Draining" \/ \E i \in 1..Len(fsLog[c]) : fsLog[c][i].op = "unlink") =>
       loopExit[c] \in {"exhausted", "disconnect"}

\* One step of a session keeps the order: its state moves along PhaseMoves
\* or stays, and a binary frame is sent only by a step within Streaming.
OrderedStep(c) ==
  /\ Phase(c)' # Phase(c) => <<Phase(c), Phase(c)'>> \in PhaseMoves
  /\ out'[c] # out[c] =>
       \/ Phase(c) = "Streaming" /\ Phase(c)' = "Streaming"
       \/ Phase(c)' = "Closed" /\ out'[c] = Append(out[c], Last(out'[c]))
                               /\ Last(out'[c]).kind = "close"

\* C18: a streaming session moves through its states only in the order
\* Validating, optional Transcoding, Streaming, Draining, Closed (with a
\* direct move to Closed from any state): no binary frame is sent before
\* validation (and transcoding, when required) has succeeded, transcoding
\* never starts before every validation check has passed, and the Draining
\* clean-up runs only after the send loop has ended.
C18_StatesInOrder ==
  /\ [](\A c \in PlayConns : OrderedSoFar(c))
  /\ [][\A c \in PlayConns : OrderedStep(c)]_vars

\* A session went through Validating, Transcoding, Streaming and Draining
\* to Closed.
C18_Witness ==
  \E c \in PlayConns :
    /\ Phase(c) = "Closed"
    /\ TranscodeSucceeded(c)
    /\ SentData(c) # <<>>
    /\ \E i \in 1..Len(fsLog[c]) : fsLog[c][i].op = "unlink"

\* --------------------------------------------------------------------- C19

\* The places of the send loop, and the moves between them and out of the
\* loop that one iteration in the order disconnect-check, read, send, sleep
\* allows.
LoopPcs == {"check", "read", "send", "sleep"}

LoopMoves ==
  { <<"check", "read">>, <<"read", "send">>, <<"send", "sleep">>,
    <<"sleep", "check">>,
    <<"check", "cleanup">>, <<"read", "cleanup">>,
    <<"read", "returned">>, <<"send", "returned">> }

\* The ways the loop can go from one send to the next.
SendToSendPaths ==
  { w \in UNION { [1..n -> LoopPcs] : n \in 2..6 } :
      /\ w[1] = "send" /\ w[Len(w)] = "send"
      /\ \A i \in 2..(Len(w) - 1) : w[i] # "send"
      /\ \A i \in 1..(Len(w) - 1) : <<w[i], w[i + 1]>> \in LoopMoves }

\* The offset at which the next chunk of the stream starts: behind the
\* header that was read away, then behind the last chunk sent.
NextOffset(c) ==
  IF SentData(c) = <<>>
  THEN (IF openLen[c] < header_skip[c] THEN openLen[c] ELSE header_skip[c])
  ELSE Last(SentData(c)).off + Last(SentData(c)).len

\* In the loop at most one chunk is read and not sent, and only while its
\* send is in progress; it is the chunk that follows the last one sent.
OneChunkInFlight(c) ==
  pc[c] \in LoopPcs =>
    IF pc[c] = "send"
    THEN /\ chunk_count[c] = Len(SentData(c)) + 1
         /\ chunk[c].off = NextOffset(c)
         /\ \A i \in 1..Len(SentData(c)) : SentData(c)[i] # chunk[c]
    ELSE chunk_count[c] = Len(SentData(c))

\* A step of the loop follows LoopMoves, and a binary frame is sent by the
\* step from send to sleep only: it is the chunk that was read.
LoopStep(c) ==
  pc[c] \in LoopPcs =>
    /\ pc'[c] # pc[c] => <<pc[c], pc'[c]>> \in LoopMoves
    /\ out'[c] # out[c] =>
         /\ pc[c] = "send" /\ pc'[c] = "sleep"
         /\ out'[c] = Append(out[c], SentBytes(chunk[c]))

\* C19: within one session every iteration of the send loop performs
\* disconnect-check, read, send, sleep in that order; so at most one
\* send_bytes is in progress at any time, chunk N+1 is not sent (nor read)
\* before the send of chunk N has returned, and between two consecutive
\* sends there is exactly one sleep and exactly one disconnect check.
C19_LoopOrder ==
  /\ [](/\ SendToSendPaths = { <<"send", "sleep", "check", "read", "send">> }
        /\ \A c \in PlayConns : OneChunkInFlight(c))
  /\ [][\A c \in PlayConns : LoopStep(c)]_vars

\* Two chunks were sent and the session sleeps after the second.
C19_Witness ==
  \E c \in PlayConns :
    /\ pc[c] = "sleep"
    /\ Len(SentData(c)) = 2
    /\ SentData(c)[2].off = SentData(c)[1].off + SentData(c)[1].len

\* --------------------------------------------------------------------- C20

\* An exception ended the session's stream.
StreamFailed(c) == loopExit[c] = "error"

\* The chunk whose send raised: it was read and counted, and not sent.
SendFailed(c) == StreamFailed(c) /\ chunk_count[c] = Len(SentData(c)) + 1

\* After a failure the handler has returned with the exception caught,
\* every chunk was sent at most once, and the chunk whose send raised was
\* not sent.
FailedQuietly(c) ==
  StreamFailed(c) =>
    /\ pc[c] = "returned"
    /\ raised[c] = "none"
    /\ caught[c] \in {"WebSocketDisconnect", "FileNotFoundError", "Exception"}
    /\ chunk_count[c] - Len(SentData(c)) \in {0, 1}
    /\ \A i \in 1..Len(SentData(c)), j \in 1..Len(SentData(c)) :
         i # j => SentData(c)[i] # SentData(c)[j]
    /\ SendFailed(c) => \A i \in 1..Len(SentData(c)) : SentData(c)[i] # chunk[c]

\* C20: if send_bytes or the file read raises in the middle of a stream,
\* the session sends no further chunk, never re-sends the failed chunk, and
\* the exception does not leave handle_audio_file_stream.
C20_FailureEndsStream ==
  /\ [](\A c \in PlayConns : FailedQuietly(c))
  /\ [][\A c \in PlayConns :
          StreamFailed(c) => out'[c] = out[c] /\ pc'[c] = "returned"]_vars

\* The send of the second chunk raised after the first was sent.
C20_Witness ==
  \E c \in PlayConns :
    /\ SendFailed(c)
    /\ caught[c] = "WebSocketDisconnect"
    /\ Len(SentData(c)) = 1

\* --------------------------------------------------------------------- C21

\* The session's encoder left a file at the temp output path (it created or
\* rewrote it) and its transcoding failed.
FailedWithOutput(c) == TranscodeFailed(c) /\ encResult[c].written # Absent

\* C21: when transcoding fails after the encoder has created the temp output
\* path (killed at the timeout, nonzero exit with a partial output, or an
\* empty output), that file no longer exists once the session has ended.
C21_FailedTranscodeLeavesNoTemp ==
  \A c \in PlayConns :
    (pc[c] = "returned" /\ FailedWithOutput(c)) =>
      tmp[EncoderOutput(c)] = Absent

\* --------------------------------------------------------------------- C22

\* The resource names the validator hands to the converter.
ConvertedNames == { f \in Filenames : NeedsConversion(JoinPath(f)) }

\* C22: the temp output path is an injective function of the resource name
\* and the target sample rate: the path a session's encoder was given is the
\* path of no other resource name, and of no name converted at another rate.
C22_TempPathInjective ==
  \A c \in PlayConns :
    encLog[c] # <<>> =>
      \A g \in ConvertedNames :
        (g # filename[c] \/ TargetRate(g) # encLog[c][1].ar) =>
          TempPath(g) # encLog[c][1].output

\* --------------------------------------------------------------------- C23

\* The disconnect check of the session is about to meet a frame of the peer
\* that is no disconnect.
MeetsFrame(c) ==
  /\ pc[c] = "check"
  /\ inbox[c] # <<>>
  /\ Head(inbox[c]).type # "websocket.disconnect"

\* The step of the session's handler takes the frame off the channel and
\* does nothing else but go on to the read.
FrameDiscarded(c) ==
  /\ inbox'[c] = Tail(inbox[c])
  /\ out'[c] = out[c]
  /\ pc'[c] = "read"
  /\ loopExit'[c] = "none" /\ caught'[c] = "none" /\ raised'[c] = "none"
  /\ clientState'[c] = "CONNECTED"
  /\ pos'[c] = pos[c]
  /\ params'[c] = params[c]
  /\ bytes_sent'[c] = bytes_sent[c]
  /\ chunk_count'[c] = chunk_count[c]

\* C23: during streaming, each inbound frame of the peer that is not a
\* disconnect is consumed by the disconnect check and discarded: it produces
\* no outbound frame, does not end the session, and leaves the file
\* position, the chunk size and the bytes-sent and chunk counters unchanged.
\* (Only the disconnect check takes a message off a /ws/play channel.)
C23_InboundFrameDiscarded ==
  [][\A c \in PlayConns :
       /\ (MeetsFrame(c) /\ pc'[c] # pc[c]) => FrameDiscarded(c)
       /\ Len(inbox'[c]) < Len(inbox[c]) => pc[c] = "check"]_vars

\* The peer sent two frames, the checks of two iterations consumed them, and
\* the stream went on to the end of the source.
C23_Witness ==
  \E c \in PlayConns :
    /\ peerSent[c] = 2 /\ ~peerGone[c] /\ inbox[c] = <<>>
    /\ Len(SentData(c)) >= 2
    /\ loopExit[c] = "exhausted"

\* --------------------------------------------------------------------- C24

\* The order of the validator's checks.
CheckOrder == <<"not_found", "invalid_path", "unsupported", "transcode">>

\* The failures the request has, and the first of them in the order of the
\* checks (0: the request has none).
FailingChecks(c) == { i \in 1..Len(CheckOrder) : KindHolds(c, CheckOrder[i]) }
FirstFailing(c) ==
  IF FailingChecks(c) = {} THEN 0
  ELSE CHOOSE i \in FailingChecks(c) : \A j \in FailingChecks(c) : i <= j

\* What the session did of check i: the existence check probes the path,
\* the containment check resolves the path and the audio root, the
\* transcoding runs the encoder (the extension check leaves no trace).
Performed(c, i) ==
  CASE i = 1 -> \E n \in 1..Len(fsLog[c]) : fsLog[c][n].op = "exists"
    [] i = 2 -> \E n \in 1..Len(fsLog[c]) : fsLog[c][n].op = "resolve"
    [] i = 3 -> FALSE
    [] i = 4 -> encLog[c] # <<>>

\* C24: validation applies its checks in the order existence, containment
\* in the audio root, extension, transcoding; a request that fails several
\* checks is closed exactly once with the reason of the first failing check,
\* and no later check (in particular no encoder invocation) is performed.
C24_FirstFailingCheckDecides ==
  \A c \in PlayConns :
    (pc[c] # "validate" /\ FirstFailing(c) # 0) =>
      /\ pc[c] = "returned"
      /\ out[c] = <<SentClose(CloseCode, ReasonOf(CheckOrder[FirstFailing(c)]))>>
      /\ \A i \in 1..Len(CheckOrder) :
           /\ i > FirstFailing(c) => ~Performed(c, i)
           /\ (i <= FirstFailing(c) /\ i # 3) => Performed(c, i)
      /\ fsLog[c][1].op = "exists"

\* A request that leads to an existing file outside the audio root, with an
\* unsupported extension, was closed with the invalid-path reason.
C24_Witness ==
  \E c \in PlayConns :
    /\ pc[c] = "returned"
    /\ Cardinality(FailingChecks(c)) >= 2
    /\ FirstFailing(c) = 2
    /\ out[c] = <<SentClose(CloseCode, "Invalid file path")>>

\* --------------------------------------------------------------------- C25

\* The session's call of _convert_mp3_to_l16 has returned.
ConvertReturned(c) ==
  encLog[c] # <<>> /\ pc[c] \notin {"spawn", "encoding", "reaping"}

\* The call returned an output path: the validator went on with it.
ReturnedPath(c) == ConvertReturned(c) /\ file_path[c] = EncoderOutput(c)

\* The encoder process exited with status 0 within the timeout, and the
\* output file exists with a size greater than 0.
EncoderSucceeded(c) ==
  /\ encResult[c].spawn = "started"
  /\ ~encResult[c].timedOut
  /\ encResult[c].rc = 0
  /\ encResult[c].outLen # Absent
  /\ encResult[c].outLen > 0

\* C25: _convert_mp3_to_l16 returns an output path if and only if the
\* encoder process exited with status 0 within the timeout and the output
\* file exists with a size greater than 0; in every other case (timeout,
\* nonzero exit, output missing or empty, executable missing, any other
\* exception) it returns the failure value - the validator closes the
\* channel - and raises nothing into the streaming session.
C25_ConvertReturnsPathIffVerified ==
  \A c \in PlayConns :
    ConvertReturned(c) =>
      /\ ReturnedPath(c) <=> EncoderSucceeded(c)
      /\ ~ReturnedPath(c) =>
           /\ pc[c] = "returned"
           /\ file_path[c] = JoinPath(filename[c])
           /\ out[c] = <<SentClose(CloseCode, "MP3 conversion failed")>>
           /\ caught[c] = "none" /\ raised[c] = "none" /\ loopExit[c] = "none"

\* The encoder reported success and left no output file: the call returned
\* the failure value.
C25_Witness ==
  \E c \in PlayConns :
    /\ ConvertReturned(c) /\ ~ReturnedPath(c)
    /\ encResult[c].spawn = "started"
    /\ encResult[c].rc = 0 /\ ~encResult[c].timedOut
    /\ encResult[c].outLen = Absent

\* --------------------------------------------------------------------- C26

\* An encoder process the session started is still running.
EncoderRunning(c) == encResult[c].alive

\* C26: if the encoder has not finished when the 60 s timeout fires, the
\* process is killed and reaped before the transcode call returns failure,
\* so no encoder process started by a session is still running after that
\* session's transcode call has returned.
C26_NoEncoderOutlivesCall ==
  \A c \in PlayConns :
    /\ ConvertReturned(c) => ~EncoderRunning(c)
    /\ EncoderRunning(c) => pc[c] \in {"encoding", "reaping"}
    /\ (encResult[c].timedOut /\ ~EncoderRunning(c)) =>
         /\ pc[c] = "returned"
         /\ out[c] = <<SentClose(CloseCode, "MP3 conversion failed")>>

\* The encoder was killed at the timeout after it had created its output,
\* and the transcode call has returned.
C26_Witness ==
  \E c \in PlayConns :
    /\ ConvertReturned(c)
    /\ encResult[c].timedOut
    /\ encResult[c].written # Absent
    /\ pc[c] = "returned"

\* --------------------------------------------------------------------- C27

\* The supported extensions of compressed formats.
CompressedFormats == {".mp3", ".ogg", ".m4a", ".flac", ".aac"}

\* C27: a session invokes the transcoding before streaming exactly when its
\* source is of a compressed format among the supported extensions, and
\* never for a .wav source; what is streamed for a compressed source is the
\* encoder's output, not the bytes of the compressed file.
C27_CompressedSourcesTranscoded ==
  \A c \in PlayConns :
    (ValidRequest(c) /\ pc[c] # "validate") =>
      /\ encLog[c] # <<>> <=> RequestedSuffix(c) \in CompressedFormats
      /\ RequestedSuffix(c) = ".wav" => encLog[c] = <<>>
      /\ RequestedSuffix(c) \in CompressedFormats =>
           \A i \in 1..Len(SentData(c)) :
             /\ SentData(c)[i].file \in AllTempPaths
             /\ SentData(c)[i].file # RequestedReal(c)

\* --------------------------------------------------------------------- C28

\* The session's source is a .wav file whose header parses, with a frame
\* rate above 0.
HeaderBacked(c) ==
  RequestedSuffix(c) = ".wav" /\ rootHeader.ok /\ rootHeader.rate > 0

\* The chunk size of 20 ms of 16-bit mono audio at a rate.
ChunkSizeAt(rate) == (rate * BitDepth * Channels * ChunkDurationMs) \div (8 * 1000)

\* C28: when the source is a .wav file whose header is parseable, the
\* sample rate used for the pacing plan (the chunk size and the reported
\* sample_rate) is the header's rate, not the hint of the name and not the
\* 8000 Hz default.
C28_PlanUsesHeaderRate ==
  \A c \in PlayConns :
    (Planned(c) /\ HeaderBacked(c)) =>
      /\ params[c].sample_rate = rootHeader.rate
      /\ params[c].chunk_size = ChunkSizeAt(rootHeader.rate)

\* --------------------------------------------------------------------- C29

\* The rate hint of a resource name.
HintRate(fname) == IF Contains(fname, "16000") THEN Rate16k ELSE DefaultRate

\* The plan computed from the hint alone.
HintPlan(fname) ==
  [chunk_size |-> ChunkSizeAt(HintRate(fname)), sleep_time |-> ChunkDurationMs,
   sample_rate |-> HintRate(fname)]

\* The session's validator has returned for a valid .wav request.
WavValidated(c) ==
  RequestedSuffix(c) = ".wav" /\ ValidRequest(c) /\ pc[c] # "validate"

PacedAt(p, rate) ==
  /\ p.sample_rate = rate
  /\ p.chunk_size = (rate * 16 * 1 * 20) \div (8 * 1000)
  /\ p.sleep_time = 20
  /\ p.sleep_time >= 5
  /\ p.chunk_size * 1000 = rate * 2 * p.sleep_time

\* C30: for every resource name the pacing plan has chunk_size =
\* floor(sampleRate * 16 * 1 * 0.02 / 8) for the resolved rate (640 bytes at
\* 16000 Hz, 320 bytes at 8000 Hz and for names without a rate hint) and an
\* inter-chunk delay of 0.02 s, which is not below the 5 ms floor, so
\* chunk_size divided by the delay is the byte rate sampleRate * 2.
C30_PlanMatchesByteRate ==
  \A c \in PlayConns :
    Planned(c) =>
      /\ PacedAt(params[c], HintRate(filename[c]))
      /\ params[c].chunk_size = IF HintRate(filename[c]) = 16000 THEN 640 ELSE 320

\* The plan of a name that holds both rate hints was computed, and a chunk
\* of the plan's size was sent.
C30_Witness ==
  \E c \in PlayConns :
    /\ Planned(c)
    /\ Contains(filename[c], "8000") /\ Contains(filename[c], "16000")
    /\ SentData(c) # <<>>
    /\ SentData(c)[1].len = params[c].chunk_size

\* --------------------------------------------------------------------- C31

\* The payload of the session's source: its length behind the header that
\* is skipped, and 0 for a source shorter than the header.
PayloadLen(c) ==
  IF SourceLen(c) > SourceHeaderSkip(c) THEN SourceLen(c) - SourceHeaderSkip(c) ELSE 0

\* ceil(a / b) for a >= 0 and b > 0.
CeilDiv(a, b) == (a + b - 1) \div b

ConvertsTo(cmd, rate) ==
  /\ cmd.ar = rate
  /\ cmd.format = "s16le"
  /\ cmd.ac = 1
  /\ cmd.overwrite

\* C32: for every resource name that is transcoded, the encoder is invoked
\* with the target sample rate 16000 if the name contains "16000" and 8000
\* otherwise, with the output format 16-bit signed little-endian raw PCM,
\* one channel, and overwrite-if-exists; its input is the requested file.
C32_EncoderArguments ==
  \A c \in PlayConns :
    \A i \in 1..Len(encLog[c]) :
      /\ ConvertsTo(encLog[c][i],
                    IF Contains(filename[c], "16000") THEN 16000 ELSE 8000)
      /\ encLog[c][i].input = JoinPath(filename[c])

\* The encoder was invoked at 16000 Hz for a name with that hint alone, and
\* the transcoding succeeded.
C32_Witness ==
  \E c \in PlayConns :
    /\ encLog[c] # <<>>
    /\ Contains(filename[c], "16000") /\ ~Contains(filename[c], "8000")
    /\ encLog[c][1].ar = 16000
    /\ TranscodeSucceeded(c)

\* --------------------------------------------------------------------- C33

\* The session's plan was computed for a file its encoder wrote.
PlannedTranscoded(c) == Planned(c) /\ encLog[c] # <<>>

\* The bytes of 20 ms of 16-bit mono audio at a rate.
BytesOf20Ms(rate) == (rate * 2 * 20) \div 1000

\* C33: for every transcoded resource name the sample rate passed to the
\* encoder equals the sample_rate of the pacing plan computed for the same
\* name (names that hold both "8000" and "16000" included), so chunk_size
\* is 20 ms of the transcoded 16-bit mono audio.
C33_EncoderRateIsPlanRate ==
  \A c \in PlayConns :
    PlannedTranscoded(c) =>
      /\ encLog[c][1].ar = params[c].sample_rate
      /\ params[c].chunk_size = BytesOf20Ms(encLog[c][1].ar)
      /\ params[c].sleep_time = 20

\* A name that holds both hints was transcoded at 16000 Hz, planned at
\* 16000 Hz, and streamed to the end.
C33_Witness ==
  \E c \in PlayConns :
    /\ PlannedTranscoded(c)
    /\ Contains(filename[c], "8000") /\ Contains(filename[c], "16000")
    /\ encLog[c][1].ar = 16000
    /\ loopExit[c] = "exhausted"

\* --------------------------------------------------------------------- C34

\* The file-system calls that change no file.
ReadOnlyOps == {"exists", "resolve", "stat", "open"}

\* The path is in the temp directory and leads to no place under the audio
\* root, whatever files the temp directory holds.
TempOnly(path) ==
  /\ IsPrefix(TempDir, path)
  /\ ~IsPrefix(AudioDirResolved, ResolveAny(path, {path}))

\* What the session did to the file system: every call but unlink leaves
\* the files alone (the files are opened for reading), an unlink removes
\* the output of the session's own encoder, and the encoder writes in the
\* temp directory.
TouchesTempOnly(c) ==
  /\ \A i \in 1..Len(fsLog[c]) :
       \/ fsLog[c][i].op \in ReadOnlyOps
       \/ /\ fsLog[c][i].op = "unlink"
          /\ encLog[c] # <<>>
          /\ fsLog[c][i].path = encLog[c][1].output
          /\ TempOnly(fsLog[c][i].path)
  /\ \A i \in 1..Len(encLog[c]) : TempOnly(encLog[c][i].output)

\* C34: the end-of-stream clean-up deletes only a temp file that was
\* produced by transcoding: for every session and every exit path, no file
\* under the audio root is deleted or modified by the streaming engine.
C34_AudioRootUntouched ==
  /\ [](\A c \in PlayConns : TouchesTempOnly(c))
  /\ [][rootLen' = rootLen /\ rootHeader' = rootHeader]_vars

\* A session whose peer left during the stream has unlinked its temp file.
C34_Witness ==
  \E c \in PlayConns :
    /\ pc[c] = "returned"
    /\ loopExit[c] = "disconnect"
    /\ fsLog[c] # <<>>
    /\ Last(fsLog[c]).op = "unlink"

\* --------------------------------------------------------------------- C35

\* The peer of the session is connected and has sent nothing.
PeerListens(c) == ~peerGone[c] /\ peerSent[c] = 0 /\ inbox[c] = <<>>

\* The poll found no disconnect: the step of the check goes on to the read.
PollSaysConnected(c) ==
  (pc[c] = "check" /\ pc'[c] # pc[c]) =>
    /\ pc'[c] = "read"
    /\ loopExit'[c] = "none"
    /\ clientState'[c] = "CONNECTED"

\* The session that has returned without an exception after its plan was
\* computed has streamed its source to exhaustion.
ReturnedExhausted(c) ==
  (pc[c] = "returned" /\ Planned(c) /\ caught[c] = "none") =>
    /\ loopExit[c] = "exhausted"
    /\ SumLen(SentData(c)) = PayloadLen(c)

\* C35: with a peer that stays connected and sends nothing, the disconnect
\* check says 'not disconnected' at every poll and does not wait for a
\* message, and the session streams any finite source to exhaustion and
\* returns: the send loop terminates.
C35_QuietPeerStreamEnds ==
  /\ [](\A c \in PlayConns :
          PeerListens(c) /\ loopExit[c] # "disconnect" /\ ReturnedExhausted(c))
  /\ [][\A c \in PlayConns : PollSaysConnected(c)]_vars
  /\ <>(\A c \in PlayConns : pc[c] = "returned")

\* A source of several chunks was streamed to its end to a peer that sent
\* nothing, and the handler returned.
C35_Witness ==
  \E c \in PlayConns :
    /\ PeerListens(c)
    /\ pc[c] = "returned"
    /\ loopExit[c] = "exhausted"
    /\ Len(SentData(c)) = 3

\* --------------------------------------------------------------------- C36

\* The echo session has received the peer's disconnect message.
EchoSawDisconnect(c) == clientState[c] = "DISCONNECTED"

\* The echo session ends only once the peer has disconnected, and no
\* exception leaves it.
EchoEndsCleanly(c) ==
  /\ raised[c] = "none"
  /\ pc[c] = "returned" => peerGone[c]

\* Nothing is sent once the disconnect was received, and no frame that is
\* not the disconnect ends the session by itself.
EchoQuietAfterDisconnect(c) ==
  /\ EchoSawDisconnect(c) => out'[c] = out[c]
  /\ (pc[c] # "returned" /\ pc'[c] = "returned") => peerGone[c]

\* C36 (as stated): the echo session terminates, without raising to its
\* caller, once the peer has disconnected or receive has failed, sends
\* nothing after the disconnect, and never terminates in response to a text
\* frame or any other non-disconnect frame.
C36_EchoEndsCleanlyOnDisconnect ==
  /\ [](\A c \in EchoConns : EchoEndsCleanly(c))
  /\ [][\A c \in EchoConns : EchoQuietAfterDisconnect(c)]_vars
  /\ \A c \in Conns : (endpoint[c] = "echo" /\ peerGone[c]) ~> (pc[c] = "returned")

\* --------------------------------------------------------------------- C37

\* The validator of the session let the name through: the session has a
\* path to transcode or to stream.
ValidatorPassed(c) == pc[c] # "validate" /\ file_path[c] # <<>>

\* The validator of the session turned the name down.
ValidatorRefused(c) == pc[c] = "returned" /\ file_path[c] = <<>>

\* The last GET /audio request was for the name of the session.
SameNameServed(c) == served > 0 /\ audio_response.name = filename[c]

\* C37: GET /audio/{filename} and the validator of /ws/play/{filename}
\* accept the same resource names: a name is served by the one if and only
\* if the validator of the other lets it through to the transcoding or the
\* stream.
C37_SameNamesAccepted ==
  \A c \in PlayConns :
    SameNameServed(c) =>
      /\ ValidatorPassed(c) => audio_response.status = HttpOk
      /\ ValidatorRefused(c) => audio_response.status # HttpOk

\* A name that needs transcoding passed the validator and was served over
\* HTTP.
C37_Witness ==
  \E c \in PlayConns :
    /\ SameNameServed(c)
    /\ ValidatorPassed(c)
    /\ NeedsConversion(file_path[c])
    /\ audio_response.status = HttpOk

====
